---------------------------- MODULE Spec2Model ----------------------------
(***************************************************************************)
(* A model of the Brain Threat Analysis scoring code.                      *)
(*                                                                         *)
(*   src/assets/scoring.js   the config-driven engine  (BT_SCORING)       *)
(*   src/unnamed/part_000    the section engine        (BT_Scoring)       *)
(*   src/assets/app.js       the renderers with their live scores          *)
(*                                                                         *)
(* The engine is a set of synchronous functions, so the state machine is   *)
(* the caller's view of it: which function ran last (callee), what it was  *)
(* given (arg) and what it returned (ret).  One action per function.       *)
(*                                                                         *)
(* JavaScript values are records [t, n, s]: t is the type tag, n the       *)
(* numeric payload, s the string payload.  Numbers are integers except     *)
(* where the code divides: a percent and a BMI are exact rationals         *)
(* [num, den] (IEEE rounding of the division is not modelled).             *)
(***************************************************************************)
EXTENDS Integers, Sequences, FiniteSets, TLC

VARIABLES callee, arg, ret

vars == <<callee, arg, ret>>

-----------------------------------------------------------------------------
(* Bounds of the model                                                     *)

MaxBands == 2
MaxItems == 2
MaxInsts == 2

-----------------------------------------------------------------------------
(* JavaScript values                                                       *)

JUndef == [t |-> "undefined", n |-> 0, s |-> ""]
JNull == [t |-> "null", n |-> 0, s |-> ""]
JNaN == [t |-> "NaN", n |-> 0, s |-> ""]
JNum(x) == [t |-> "number", n |-> x, s |-> ""]
JStr(x) == [t |-> "string", n |-> 0, s |-> x]
JBool(b) == [t |-> "boolean", n |-> IF b THEN 1 ELSE 0, s |-> ""]

\* A null entry of an array of schema nodes (reading a field of it throws).
Nil == [nil |-> TRUE]

\* What a call that threw leaves with its caller.
Thrown == [threw |-> TRUE]

Returned(v) == [threw |-> FALSE, val |-> v]

SeqsUpTo(S, n) == UNION {[1..k -> S] : k \in 0..n}

RECURSIVE SumSeq(_)
SumSeq(s) == IF s = <<>> THEN 0 ELSE Head(s) + SumSeq(Tail(s))

MathMax(a, b) == IF a >= b THEN a ELSE b

MathMin(a, b) == IF a <= b THEN a ELSE b

\* Number(string): the strings the model uses, by what the conversion gives.
NumberOfString(s) ==
  CASE s = "" -> JNum(0)
    [] s = "0" -> JNum(0)
    [] s = "1" -> JNum(1)
    [] s = "2" -> JNum(2)
    [] s = "3" -> JNum(3)
    [] s = "4" -> JNum(4)
    [] s = "5" -> JNum(5)
    [] s = "-1" -> JNum(-1)
    [] OTHER -> JNaN

\* Number(v)
Number(v) ==
  CASE v.t = "number" -> v
    [] v.t = "NaN" -> JNaN
    [] v.t = "boolean" -> JNum(v.n)
    [] v.t = "null" -> JNum(0)
    [] v.t = "string" -> NumberOfString(v.s)
    [] OTHER -> JNaN

\* JavaScript truthiness ( if (v) ... )
Truthy(v) ==
  CASE v.t = "number" -> v.n # 0
    [] v.t = "boolean" -> v.n = 1
    [] v.t = "string" -> v.s # ""
    [] OTHER -> FALSE

-----------------------------------------------------------------------------
(* Exact rationals, den > 0                                                *)

RECURSIVE Gcd(_, _)
Gcd(a, b) == IF b = 0 THEN a ELSE Gcd(b, a % b)

Abs(x) == IF x < 0 THEN -x ELSE x

Rat(n, d) ==
  LET g == Gcd(Abs(n), d)
  IN  [num |-> n \div g, den |-> d \div g]

RatOf(n) == [num |-> n, den |-> 1]

\* Math.round of the rational n/d (d # 0): the nearest integer, halves up.
MathRound(n, d) ==
  IF d > 0 THEN (2 * n + d) \div (2 * d) ELSE (0 - 2 * n - d) \div (0 - 2 * d)

-----------------------------------------------------------------------------
(* scoring.js: utilities                                                   *)

isNum(v) == v.t # "null" /\ v.t # "undefined" /\ Number(v).t # "NaN"

toNum(v, d) == IF isNum(v) THEN Number(v) ELSE d

clamp(v, lo, hi) == MathMax(lo, MathMin(hi, v))

\* value >= bound and value <= bound, the bound converted as the relational
\* operators convert it (undefined and other non-numbers compare false).
RelGE(value, bound) ==
  LET m == Number(bound) IN m.t = "number" /\ value.num >= m.n * value.den

RelLE(value, bound) ==
  LET m == Number(bound) IN m.t = "number" /\ value.num <= m.n * value.den

\* A band of a band table.  label and level are strings, "" when the band
\* declares none (b.label || "" gives "" for both).
Band(min, max, label, level) ==
  [nil |-> FALSE, min |-> min, max |-> max, label |-> label, level |-> level]

NoBand == [label |-> "", level |-> "", min |-> JUndef, max |-> JUndef]

\* A band table: an array, absent (the caller's || [] or the default
\* parameter gives the empty array), or a truthy value that is no array.
Arr(e) == [k |-> "array", e |-> e]

Absent == [k |-> "undefined", e |-> <<>>]

NotIterable == [k |-> "number", e |-> <<>>]

OrEmpty(a) == IF a.k = "undefined" THEN Arr(<<>>) ELSE a

\* The condition of line 20.
BandMatches(value, b) ==
  /\ (b.min.t = "undefined" \/ RelGE(value, b.min))
  /\ (b.max.t = "undefined" \/ RelLE(value, b.max))

RECURSIVE bandScan(_, _, _)
bandScan(value, e, i) ==
  IF i > Len(e) THEN NoBand
  ELSE IF BandMatches(value, e[i])
       THEN [label |-> e[i].label, level |-> e[i].level,
             min |-> e[i].min, max |-> e[i].max]
       ELSE bandScan(value, e, i + 1)

RECURSIVE bandScanThrows(_, _, _)
bandScanThrows(value, e, i) ==
  IF i > Len(e) THEN FALSE
  ELSE IF e[i].nil THEN TRUE
       ELSE IF BandMatches(value, e[i]) THEN FALSE
            ELSE bandScanThrows(value, e, i + 1)

\* Mutant: the last matching band wins.
RECURSIVE bandScanLast(_, _, _)
bandScanLast(value, e, i) ==
  IF i < 1 THEN NoBand
  ELSE IF BandMatches(value, e[i])
       THEN [label |-> e[i].label, level |-> e[i].level,
             min |-> e[i].min, max |-> e[i].max]
       ELSE bandScanLast(value, e, i - 1)

bandFromCuts_lastWins(value, bands) == bandScanLast(value, bands.e, Len(bands.e))

bandFromCuts(value, bands) == bandScan(value, bands.e, 1)

\* for (const b of bands) throws on a value that is not iterable, b.min on a
\* null entry the scan reaches.
bandFromCutsThrows(value, bands) ==
  \/ bands.k # "array"
  \/ bandScanThrows(value, bands.e, 1)

bandFromPercent(pct, percentBands) == bandFromCuts(pct, percentBands)

bandFromPercentThrows(pct, percentBands) == bandFromCutsThrows(pct, percentBands)

-----------------------------------------------------------------------------
(* part_000: helpers                                                       *)

NoTier == "-"

RECURSIVE pickScan(_, _, _)
pickScan(value, e, i) ==
  IF i > Len(e) THEN NoTier
  ELSE IF RelGE(value, e[i].min) /\ RelLE(value, e[i].max) THEN e[i].label
       ELSE pickScan(value, e, i + 1)

\* bands && Array.isArray(bands), else the dash.
pickBand(value, bands) ==
  IF bands.k = "array" THEN pickScan(value, bands.e, 1) ELSE NoTier

\* pct(score, max): a rounded whole percent.
pct(score, max) == IF max > 0 THEN MathRound(score * 100, max) ELSE 0


-----------------------------------------------------------------------------
(* The schema and the response map                                         *)

\* An item of an instrument, with every field an evaluator reads.
Item(key) ==
  [nil |-> FALSE, key |-> key, reverse |-> FALSE,
   maxValue |-> JUndef, max |-> JUndef,
   scoreIfChecked |-> JUndef, scoreIfUnchecked |-> JUndef,
   options |-> Absent, weight |-> JUndef]

Option(value) == [nil |-> FALSE, value |-> value]

Med(key, weight) == [nil |-> FALSE, key |-> key, weight |-> weight]

MedClass(meds, baseRisk) == [nil |-> FALSE, meds |-> meds, baseRisk |-> baseRisk]

\* inst.likert?.scaleMax and inst.likert?.bands read undefined alike when
\* inst.likert is absent and when it lacks the field.
Likert(scaleMax, bands) == [scaleMax |-> scaleMax, bands |-> bands]

\* inst.fields?.age?.key and its like: "" when any link of the chain is absent.
Fields(age, height, weight) == [age |-> age, height |-> height, weight |-> weight]

Inst(type, key) ==
  [nil |-> FALSE, type |-> type, key |-> key, title |-> "",
   items |-> Absent, likert |-> Likert(JUndef, Absent),
   bands |-> Absent, percentBands |-> Absent, classes |-> Absent,
   fields |-> Fields("", "", ""), ageBands |-> Absent, bmiBands |-> Absent]

\* responses[key]: undefined for a key the map does not hold.
Resp(responses, key) ==
  IF key \in DOMAIN responses THEN responses[key] ELSE JUndef

HasNil(a) == a.k = "array" /\ \E i \in 1..Len(a.e) : a.e[i].nil

\* a ?? b
Coalesce(a, b) == IF a.t \in {"null", "undefined"} THEN b ELSE a

\* v === "1" || v === 1 || v === true || v === "true"
IsChecked(v) ==
  \/ v = JStr("1")
  \/ v = JNum(1)
  \/ v = JBool(TRUE)
  \/ v = JStr("true")

-----------------------------------------------------------------------------
(* scoring.js: the instrument evaluators                                   *)

\* Mutant: a reverse-scored item is summed as it was answered.
RECURSIVE likertLoop_noReverse(_, _, _, _)
likertLoop_noReverse(e, responses, scaleMax, i) ==
  IF i > Len(e) THEN [total |-> 0, answered |-> 0]
  ELSE LET rest == likertLoop_noReverse(e, responses, scaleMax, i + 1)
           raw == toNum(Resp(responses, e[i].key), JNull)
           val == clamp(raw.n, 0, scaleMax)
       IN  IF raw.t = "null" THEN rest
           ELSE [total |-> rest.total + val, answered |-> rest.answered + 1]

RECURSIVE likertLoop(_, _, _, _)
likertLoop(e, responses, scaleMax, i) ==
  IF i > Len(e) THEN [total |-> 0, answered |-> 0]
  ELSE LET rest == likertLoop(e, responses, scaleMax, i + 1)
           raw == toNum(Resp(responses, e[i].key), JNull)
           val == IF e[i].reverse THEN clamp(scaleMax - raw.n, 0, scaleMax)
                  ELSE clamp(raw.n, 0, scaleMax)
       IN  IF raw.t = "null" THEN rest
           ELSE [total |-> rest.total + val, answered |-> rest.answered + 1]

computeLikert(inst, responses) ==
  LET scaleMax == toNum(inst.likert.scaleMax, JNum(4)).n
      sums == IF inst.items.k = "array"
              THEN likertLoop(inst.items.e, responses, scaleMax, 1)
              ELSE [total |-> 0, answered |-> 0]
      bands == OrEmpty(inst.likert.bands)
  IN  [type |-> "likert", total |-> sums.total, answered |-> sums.answered,
       max |-> (IF inst.items.k = "array" THEN Len(inst.items.e) ELSE 0) * scaleMax,
       bands |-> bands, band |-> bandFromCuts(RatOf(sums.total), bands)]

computeLikertThrows(inst, responses) ==
  \/ HasNil(inst.items)
  \/ bandFromCutsThrows(RatOf(computeLikert(inst, responses).total),
                        OrEmpty(inst.likert.bands))

\* Mutant: an item left without a selection counts as answered.
RECURSIVE radioLoop_countsAll(_, _, _)
radioLoop_countsAll(e, responses, i) ==
  IF i > Len(e) THEN [total |-> 0, answered |-> 0]
  ELSE LET rest == radioLoop_countsAll(e, responses, i + 1)
           raw == Resp(responses, e[i].key)
       IN  [total |-> rest.total + toNum(raw, JNum(0)).n,
            answered |-> rest.answered + 1]

RECURSIVE radioLoop(_, _, _)
radioLoop(e, responses, i) ==
  IF i > Len(e) THEN [total |-> 0, answered |-> 0]
  ELSE LET rest == radioLoop(e, responses, i + 1)
           raw == Resp(responses, e[i].key)
       IN  IF raw.t = "undefined" \/ raw = JStr("") THEN rest
           ELSE [total |-> rest.total + toNum(raw, JNum(0)).n,
                 answered |-> rest.answered + 1]

RECURSIVE radioMax(_, _)
radioMax(e, i) ==
  IF i < 1 THEN 0
  ELSE MathMax(radioMax(e, i - 1),
               toNum(Coalesce(e[i].maxValue, Coalesce(e[i].max, JNum(0))), JNum(0)).n)

computeRadio(inst, responses) ==
  LET sums == IF inst.items.k = "array"
              THEN radioLoop(inst.items.e, responses, 1)
              ELSE [total |-> 0, answered |-> 0]
      bands == OrEmpty(inst.bands)
  IN  [type |-> "radio", total |-> sums.total, answered |-> sums.answered,
       max |-> IF inst.items.k = "array"
               THEN radioMax(inst.items.e, Len(inst.items.e)) ELSE 0,
       bands |-> bands, band |-> bandFromCuts(RatOf(sums.total), bands)]

computeRadioThrows(inst, responses) ==
  \/ HasNil(inst.items)
  \/ bandFromCutsThrows(RatOf(computeRadio(inst, responses).total),
                        OrEmpty(inst.bands))

\* Mutant: only checked items score; an unchecked item's points are dropped.
RECURSIVE ynLoop_checkedOnly(_, _, _)
ynLoop_checkedOnly(e, responses, i) ==
  IF i > Len(e) THEN [total |-> 0, answered |-> 0]
  ELSE LET rest == ynLoop_checkedOnly(e, responses, i + 1)
           v == Resp(responses, e[i].key)
           pts == IF IsChecked(v) THEN toNum(e[i].scoreIfChecked, JNum(0)).n
                  ELSE 0
       IN  IF v.t = "undefined" THEN rest
           ELSE [total |-> rest.total + pts, answered |-> rest.answered + 1]

RECURSIVE ynLoop(_, _, _)
ynLoop(e, responses, i) ==
  IF i > Len(e) THEN [total |-> 0, answered |-> 0]
  ELSE LET rest == ynLoop(e, responses, i + 1)
           v == Resp(responses, e[i].key)
           pts == IF IsChecked(v) THEN toNum(e[i].scoreIfChecked, JNum(0)).n
                  ELSE toNum(e[i].scoreIfUnchecked, JNum(0)).n
       IN  IF v.t = "undefined" THEN rest
           ELSE [total |-> rest.total + pts, answered |-> rest.answered + 1]

RECURSIVE ynMax(_, _)
ynMax(e, i) ==
  IF i < 1 THEN 0
  ELSE ynMax(e, i - 1) + MathMax(toNum(e[i].scoreIfChecked, JNum(0)).n,
                                 toNum(e[i].scoreIfUnchecked, JNum(0)).n)

computeYnList(inst, responses) ==
  LET sums == IF inst.items.k = "array"
              THEN ynLoop(inst.items.e, responses, 1)
              ELSE [total |-> 0, answered |-> 0]
      bands == OrEmpty(inst.bands)
  IN  [type |-> "yn_list", total |-> sums.total, answered |-> sums.answered,
       max |-> IF inst.items.k = "array"
               THEN ynMax(inst.items.e, Len(inst.items.e)) ELSE 0,
       bands |-> bands, band |-> bandFromCuts(RatOf(sums.total), bands)]

computeYnListThrows(inst, responses) ==
  \/ HasNil(inst.items)
  \/ bandFromCutsThrows(RatOf(computeYnList(inst, responses).total),
                        OrEmpty(inst.bands))

\* options.reduce((m, op) => Math.max(m, toNum(op.value, 0)), 0)
RECURSIVE maxOption(_, _)
maxOption(o, i) ==
  IF i < 1 THEN 0
  ELSE MathMax(maxOption(o, i - 1), toNum(o[i].value, JNum(0)).n)

ItemOptions(it) == IF it.options.k = "array" THEN it.options.e ELSE <<>>

\* Mutant: the weight of an item is added to the attainable maximum.
RECURSIVE weightedLoop_weightInMax(_, _, _)
weightedLoop_weightInMax(e, responses, i) ==
  IF i > Len(e) THEN [total |-> 0, max |-> 0, answered |-> 0]
  ELSE LET rest == weightedLoop_weightInMax(e, responses, i + 1)
           options == ItemOptions(e[i])
           selected == toNum(Resp(responses, e[i].key), JNull)
           maxOpt == maxOption(options, Len(options)) + toNum(e[i].weight, JNum(0)).n
       IN  IF selected.t = "null"
           THEN [rest EXCEPT !.max = @ + maxOpt]
           ELSE [total |-> rest.total + clamp(selected.n, 0, maxOpt),
                 max |-> rest.max + maxOpt,
                 answered |-> rest.answered + 1]

RECURSIVE weightedLoop(_, _, _)
weightedLoop(e, responses, i) ==
  IF i > Len(e) THEN [total |-> 0, max |-> 0, answered |-> 0]
  ELSE LET rest == weightedLoop(e, responses, i + 1)
           options == ItemOptions(e[i])
           selected == toNum(Resp(responses, e[i].key), JNull)
           maxOpt == maxOption(options, Len(options))
       IN  IF selected.t = "null"
           THEN [rest EXCEPT !.max = @ + maxOpt]
           ELSE [total |-> rest.total + clamp(selected.n, 0, maxOpt),
                 max |-> rest.max + maxOpt,
                 answered |-> rest.answered + 1]

\* The percent of a total in a max: (total / max) * 100, 0 for no max.
PercentOf(total, max) == IF max > 0 THEN Rat(total * 100, max) ELSE RatOf(0)

\* Mutant: the raw-total band table is used.
weightedBandTable_rawBands(inst) == OrEmpty(inst.bands)

\* Which band table the percent of a weighted select is resolved in.
weightedBandTable(inst) == OrEmpty(inst.percentBands)

computeWeightedSelect(inst, responses) ==
  LET sums == IF inst.items.k = "array"
              THEN weightedLoop(inst.items.e, responses, 1)
              ELSE [total |-> 0, max |-> 0, answered |-> 0]
      p == PercentOf(sums.total, sums.max)
      percentBands == weightedBandTable(inst)
  IN  [type |-> "weighted_select", total |-> sums.total, max |-> sums.max,
       percent |-> p, answered |-> sums.answered,
       percentBands |-> percentBands, band |-> bandFromPercent(p, percentBands)]

computeWeightedSelectThrows(inst, responses) ==
  \/ HasNil(inst.items)
  \/ /\ inst.items.k = "array"
     /\ \E i \in 1..Len(inst.items.e) : HasNil(inst.items.e[i].options)
  \/ bandFromPercentThrows(computeWeightedSelect(inst, responses).percent,
                           OrEmpty(inst.percentBands))

RECURSIVE medsLoop(_, _, _)
medsLoop(m, responses, i) ==
  IF i > Len(m) THEN [total |-> 0, checkedCount |-> 0]
  ELSE LET rest == medsLoop(m, responses, i + 1)
       IN  IF IsChecked(Resp(responses, m[i].key))
           THEN [total |-> rest.total + toNum(m[i].weight, JNum(0)).n,
                 checkedCount |-> rest.checkedCount + 1]
           ELSE rest

RECURSIVE classesLoop(_, _, _)
classesLoop(c, responses, i) ==
  IF i > Len(c) THEN [total |-> 0, checkedCount |-> 0]
  ELSE LET rest == classesLoop(c, responses, i + 1)
           own == IF c[i].meds.k = "array"
                  THEN medsLoop(c[i].meds.e, responses, 1)
                  ELSE [total |-> 0, checkedCount |-> 0]
       IN  [total |-> rest.total + own.total,
            checkedCount |-> rest.checkedCount + own.checkedCount]

computeMedications(inst, responses) ==
  LET sums == IF inst.classes.k = "array"
              THEN classesLoop(inst.classes.e, responses, 1)
              ELSE [total |-> 0, checkedCount |-> 0]
      bands == OrEmpty(inst.bands)
  IN  [type |-> "medications", total |-> sums.total,
       checkedCount |-> sums.checkedCount,
       bands |-> bands, band |-> bandFromCuts(RatOf(sums.total), bands)]

computeMedicationsThrows(inst, responses) ==
  \/ HasNil(inst.classes)
  \/ /\ inst.classes.k = "array"
     /\ \E i \in 1..Len(inst.classes.e) : HasNil(inst.classes.e[i].meds)
  \/ bandFromCutsThrows(RatOf(computeMedications(inst, responses).total),
                        OrEmpty(inst.bands))

\* A BMI: null, or a number of tenths.
NoBmi == [null |-> TRUE, tenths |-> 0]

Bmi(tenths) == [null |-> FALSE, tenths |-> tenths]

\* Lines 193-202 and 216-225: the BMI of a height in cm and a weight in kg,
\* Math.round(calc * 10) / 10 with calc = wKg / (hCm / 100)^2.
bmiOf(inst, responses) ==
  IF inst.fields.height # "" /\ inst.fields.weight # ""
  THEN LET hCm == toNum(Resp(responses, inst.fields.height), JNull)
           wKg == toNum(Resp(responses, inst.fields.weight), JNull)
       IN  IF Truthy(hCm) /\ Truthy(wKg)
           THEN LET b == MathRound(wKg.n * 100000, hCm.n * hCm.n)
                IN  [bmi |-> Bmi(b), looked |-> TRUE,
                     bmiBand |-> bandFromCuts(Rat(b, 10), OrEmpty(inst.bmiBands))]
           ELSE [bmi |-> NoBmi, looked |-> FALSE, bmiBand |-> NoBand]
  ELSE [bmi |-> NoBmi, looked |-> FALSE, bmiBand |-> NoBand]

bmiOfThrows(inst, responses) ==
  /\ bmiOf(inst, responses).looked
  /\ bandFromCutsThrows(Rat(bmiOf(inst, responses).bmi.tenths, 10),
                        OrEmpty(inst.bmiBands))

\* Lines 186-192: the age and its band.
ageOf(inst, responses) ==
  IF inst.fields.age # ""
  THEN LET a == toNum(Resp(responses, inst.fields.age), JNull)
       IN  IF a.t # "null"
           THEN [age |-> a,
                 ageBand |-> bandFromCuts(RatOf(a.n), OrEmpty(inst.ageBands))]
           ELSE [age |-> JNull, ageBand |-> NoBand]
  ELSE [age |-> JNull, ageBand |-> NoBand]

ageOfThrows(inst, responses) ==
  /\ ageOf(inst, responses).age.t # "null"
  /\ bandFromCutsThrows(RatOf(ageOf(inst, responses).age.n),
                        OrEmpty(inst.ageBands))

computeDemographics(inst, responses) ==
  LET a == ageOf(inst, responses)
      b == bmiOf(inst, responses)
  IN  [type |-> "demographics", age |-> a.age, ageBand |-> a.ageBand,
       bmi |-> b.bmi, bmiBand |-> b.bmiBand]

computeDemographicsThrows(inst, responses) ==
  ageOfThrows(inst, responses) \/ bmiOfThrows(inst, responses)

computeBmi(inst, responses) ==
  LET b == bmiOf(inst, responses)
  IN  [type |-> "bmi", bmi |-> b.bmi, bmiBand |-> b.bmiBand]

computeBmiThrows(inst, responses) == bmiOfThrows(inst, responses)

-----------------------------------------------------------------------------
(* scoring.js: the dispatcher                                              *)

\* The note of an unsupported type names the type tag.
Unsupported(type) == [type |-> "unknown", note |-> <<"Unsupported instrument type: ", type>>]

computeInstrument(inst, responses) ==
  CASE inst.type = "demographics" -> computeDemographics(inst, responses)
    [] inst.type = "bmi" -> computeBmi(inst, responses)
    [] inst.type = "yn_list" -> computeYnList(inst, responses)
    [] inst.type = "likert" -> computeLikert(inst, responses)
    [] inst.type = "radio" -> computeRadio(inst, responses)
    [] inst.type = "weighted_select" -> computeWeightedSelect(inst, responses)
    [] inst.type = "medications" -> computeMedications(inst, responses)
    [] OTHER -> Unsupported(inst.type)

\* inst.type on a null instrument throws; else what the evaluator throws.
computeInstrumentThrows(inst, responses) ==
  IF inst.nil THEN TRUE
  ELSE CASE inst.type = "demographics" -> computeDemographicsThrows(inst, responses)
         [] inst.type = "bmi" -> computeBmiThrows(inst, responses)
         [] inst.type = "yn_list" -> computeYnListThrows(inst, responses)
         [] inst.type = "likert" -> computeLikertThrows(inst, responses)
         [] inst.type = "radio" -> computeRadioThrows(inst, responses)
         [] inst.type = "weighted_select" -> computeWeightedSelectThrows(inst, responses)
         [] inst.type = "medications" -> computeMedicationsThrows(inst, responses)
         [] OTHER -> FALSE

-----------------------------------------------------------------------------
(* scoring.js: categories and the overall result                           *)

SubGroup(key, instruments) == [nil |-> FALSE, key |-> key, instruments |-> instruments]

\* catDef.summary: absent, or a rule.
NoSummary == [present |-> FALSE, mode |-> "", sources |-> Absent,
              bands |-> Absent, percentBands |-> Absent]

Summary(mode, sources, bands, percentBands) ==
  [present |-> TRUE, mode |-> mode, sources |-> sources,
   bands |-> bands, percentBands |-> percentBands]

Category(key, instruments, subAccordions, summary) ==
  [nil |-> FALSE, key |-> key, title |-> "", instruments |-> instruments,
   subAccordions |-> subAccordions, summary |-> summary]

\* config.overall: mode and percentBands (undefined alike when absent), and
\* whether overall.compute is a string.
Overall(mode, percentBands, computeIsString) ==
  [mode |-> mode, percentBands |-> percentBands, computeIsString |-> computeIsString]

Config(categories, overall) == [categories |-> categories, overall |-> overall]

\* One entry of a category's result list: { key, title, [sub,] ...result }.
\* sub is <<>> for a flat instrument and <<sub.key>> for one of a sub-group.
ResultEntry(inst, sub, responses) ==
  [key |-> inst.key, title |-> inst.title, sub |-> sub,
   res |-> computeInstrument(inst, responses)]

\* r.total and r.max of an entry: undefined for a result without the field.
ResTotal(r) == IF "total" \in DOMAIN r.res THEN JNum(r.res.total) ELSE JUndef

ResMax(r) == IF "max" \in DOMAIN r.res THEN JNum(r.res.max) ELSE JUndef

\* Mutant: an unsupported instrument ends the evaluation of its list.
RECURSIVE instrumentsLoop_abortsOnUnknown(_, _, _, _)
instrumentsLoop_abortsOnUnknown(e, sub, responses, i) ==
  IF i > Len(e) THEN <<>>
  ELSE IF computeInstrument(e[i], responses).type = "unknown"
       THEN <<ResultEntry(e[i], sub, responses)>>
       ELSE <<ResultEntry(e[i], sub, responses)>>
              \o instrumentsLoop_abortsOnUnknown(e, sub, responses, i + 1)

RECURSIVE instrumentsLoop(_, _, _, _)
instrumentsLoop(e, sub, responses, i) ==
  IF i > Len(e) THEN <<>>
  ELSE <<ResultEntry(e[i], sub, responses)>> \o instrumentsLoop(e, sub, responses, i + 1)

RECURSIVE subAccordionsLoop(_, _, _)
subAccordionsLoop(s, responses, i) ==
  IF i > Len(s) THEN <<>>
  ELSE (IF s[i].instruments.k = "array"
        THEN instrumentsLoop(s[i].instruments.e, <<s[i].key>>, responses, 1)
        ELSE <<>>)
       \o subAccordionsLoop(s, responses, i + 1)

\* Mutant: the instruments of the sub-groups are evaluated before the flat ones.
instResultsOf_subGroupsFirst(cat, responses) ==
  (IF cat.subAccordions.k = "array"
   THEN subAccordionsLoop(cat.subAccordions.e, responses, 1) ELSE <<>>)
  \o
  (IF cat.instruments.k = "array"
   THEN instrumentsLoop(cat.instruments.e, <<>>, responses, 1) ELSE <<>>)

\* Lines 314-333: the result list of a category.
instResultsOf(cat, responses) ==
  (IF cat.instruments.k = "array"
   THEN instrumentsLoop(cat.instruments.e, <<>>, responses, 1) ELSE <<>>)
  \o
  (IF cat.subAccordions.k = "array"
   THEN subAccordionsLoop(cat.subAccordions.e, responses, 1) ELSE <<>>)

instResultsThrows(cat, responses) ==
  \/ /\ cat.instruments.k = "array"
     /\ \E i \in 1..Len(cat.instruments.e) :
          computeInstrumentThrows(cat.instruments.e[i], responses)
  \/ /\ cat.subAccordions.k = "array"
     /\ \E j \in 1..Len(cat.subAccordions.e) :
          \/ cat.subAccordions.e[j].nil
          \/ /\ cat.subAccordions.e[j].instruments.k = "array"
             /\ \E i \in 1..Len(cat.subAccordions.e[j].instruments.e) :
                  computeInstrumentThrows(cat.subAccordions.e[j].instruments.e[i],
                                          responses)

\* byKey[k]: the last result of the list with that key, if any.
HasKey(instResults, k) == \E i \in 1..Len(instResults) : instResults[i].key = k

ByKey(instResults, k) ==
  instResults[CHOOSE i \in 1..Len(instResults) :
                /\ instResults[i].key = k
                /\ \A j \in (i + 1)..Len(instResults) : instResults[j].key # k]

\* Mutant: a source without a result ends the sum.
RECURSIVE sumSources_stopsAtMissing(_, _, _)
sumSources_stopsAtMissing(src, instResults, i) ==
  IF i > Len(src) THEN 0
  ELSE IF ~HasKey(instResults, src[i]) THEN 0
       ELSE LET rest == sumSources_stopsAtMissing(src, instResults, i + 1)
            IN  IF isNum(ResTotal(ByKey(instResults, src[i])))
                THEN rest + Number(ResTotal(ByKey(instResults, src[i]))).n
                ELSE rest

RECURSIVE sumSources(_, _, _)
sumSources(src, instResults, i) ==
  IF i > Len(src) THEN 0
  ELSE LET rest == sumSources(src, instResults, i + 1)
       IN  IF ~HasKey(instResults, src[i]) THEN rest
           ELSE IF isNum(ResTotal(ByKey(instResults, src[i])))
                THEN rest + Number(ResTotal(ByKey(instResults, src[i]))).n
                ELSE rest

\* Mutant: the percents of the sources are pooled over the largest max.
RECURSIVE percentSources_largestMax(_, _, _)
percentSources_largestMax(src, instResults, i) ==
  IF i > Len(src) THEN [t |-> 0, m |-> 0]
  ELSE LET rest == percentSources_largestMax(src, instResults, i + 1)
       IN  IF ~HasKey(instResults, src[i]) THEN rest
           ELSE [t |-> rest.t + toNum(ResTotal(ByKey(instResults, src[i])), JNum(0)).n,
                 m |-> MathMax(rest.m, toNum(ResMax(ByKey(instResults, src[i])), JNum(0)).n)]

RECURSIVE percentSources(_, _, _)
percentSources(src, instResults, i) ==
  IF i > Len(src) THEN [t |-> 0, m |-> 0]
  ELSE LET rest == percentSources(src, instResults, i + 1)
       IN  IF ~HasKey(instResults, src[i]) THEN rest
           ELSE [t |-> rest.t + toNum(ResTotal(ByKey(instResults, src[i])), JNum(0)).n,
                 m |-> rest.m + toNum(ResMax(ByKey(instResults, src[i])), JNum(0)).n]

\* A number or null: value and percent of a category summary.
NoNumber == [null |-> TRUE, num |-> 0, den |-> 1]

SomeNumber(r) == [null |-> FALSE, num |-> r.num, den |-> r.den]

\* summaryDef.percentBands || summaryDef.bands || []
summaryBands(summaryDef) ==
  IF summaryDef.percentBands.k # "undefined" THEN summaryDef.percentBands
  ELSE OrEmpty(summaryDef.bands)

\* Mutant: a zeroed summary stands in for the missing rule.
NoCategorySummary_zeroed ==
  [null |-> FALSE, type |-> "category_summary", value |-> [null |-> FALSE, num |-> 0, den |-> 1],
   percent |-> [null |-> TRUE, num |-> 0, den |-> 1],
   band |-> [label |-> "", level |-> "", min |-> JUndef, max |-> JUndef]]

\* null for a category without a summary rule.
NoCategorySummary == [null |-> TRUE]

summarizeCategory(catKey, catDef, instResults) ==
  LET summaryDef == catDef.summary
      src == OrEmpty(summaryDef.sources).e
      value == IF summaryDef.mode = "sum"
               THEN SomeNumber(RatOf(sumSources(src, instResults, 1)))
               ELSE NoNumber
      sums == percentSources(src, instResults, 1)
      percent == IF summaryDef.mode = "percent"
                 THEN SomeNumber(PercentOf(sums.t, sums.m))
                 ELSE NoNumber
      bands == summaryBands(summaryDef)
      band == IF ~percent.null THEN bandFromPercent(percent, bands)
              ELSE IF ~value.null THEN bandFromCuts(value, bands)
              ELSE NoBand
  IN  IF ~summaryDef.present THEN NoCategorySummary
      ELSE [null |-> FALSE, type |-> "category_summary",
            value |-> value, percent |-> percent, band |-> band]

summarizeCategoryThrows(catKey, catDef, instResults) ==
  /\ catDef.summary.present
  /\ catDef.summary.mode \in {"sum", "percent"}
  /\ \/ OrEmpty(catDef.summary.sources).k # "array"
     \/ LET s == summarizeCategory(catKey, catDef, instResults)
            v == IF catDef.summary.mode = "sum" THEN s.value ELSE s.percent
        IN  bandFromCutsThrows(v, summaryBands(catDef.summary))

RECURSIVE categoriesLoop(_, _, _)
categoriesLoop(c, responses, i) ==
  IF i > Len(c) THEN <<>>
  ELSE LET instResults == instResultsOf(c[i], responses)
       IN  <<[key |-> c[i].key, title |-> c[i].title, instruments |-> instResults,
              summary |-> summarizeCategory(c[i].key, c[i], instResults)]>>
           \o categoriesLoop(c, responses, i + 1)

categoriesThrow(c, responses) ==
  \E i \in 1..Len(c) :
    \/ c[i].nil
    \/ instResultsThrows(c[i], responses)
    \/ summarizeCategoryThrows(c[i].key, c[i], instResultsOf(c[i], responses))

\* All instrument results of all sections, in order.
RECURSIVE allInstruments(_, _)
allInstruments(sections, i) ==
  IF i > Len(sections) THEN <<>>
  ELSE sections[i].instruments \o allInstruments(sections, i + 1)

\* Mutant: the results of every type are pooled.
RECURSIVE weightedTotals_allTypes(_, _)
weightedTotals_allTypes(r, i) ==
  IF i > Len(r) THEN [t |-> 0, m |-> 0]
  ELSE LET rest == weightedTotals_allTypes(r, i + 1)
       IN  [t |-> rest.t + toNum(ResTotal(r[i]), JNum(0)).n,
            m |-> rest.m + toNum(ResMax(r[i]), JNum(0)).n]

RECURSIVE weightedTotals(_, _)
weightedTotals(r, i) ==
  IF i > Len(r) THEN [t |-> 0, m |-> 0]
  ELSE LET rest == weightedTotals(r, i + 1)
       IN  IF r[i].res.type = "weighted_select"
           THEN [t |-> rest.t + toNum(ResTotal(r[i]), JNum(0)).n,
                 m |-> rest.m + toNum(ResMax(r[i]), JNum(0)).n]
           ELSE rest

NoOverall == [empty |-> TRUE]

\* Lines 345-365.
overallOf(config, sections) ==
  IF config.overall.computeIsString THEN NoOverall
  ELSE IF config.overall.mode = "percent"
       THEN LET sums == weightedTotals(allInstruments(sections, 1), 1)
                p == PercentOf(sums.t, sums.m)
            IN  [empty |-> FALSE, mode |-> "percent", percent |-> p,
                 band |-> bandFromPercent(p, OrEmpty(config.overall.percentBands))]
       ELSE NoOverall

overallThrows(config, sections) ==
  /\ ~config.overall.computeIsString
  /\ config.overall.mode = "percent"
  /\ bandFromPercentThrows(overallOf(config, sections).percent,
                           OrEmpty(config.overall.percentBands))

\* payload?.config || {} and payload?.responses || {}: an absent payload, config
\* or response map reads as an empty one.
NoConfig == Config(Absent, Overall("", Absent, FALSE))

NoResponses == <<>>

Payload(config, responses) == [k |-> "object", config |-> config, responses |-> responses]

\* compute() called without a payload.
NoPayload == [k |-> "undefined"]

\* payload?.config || {}
configOf(payload) == IF payload.k = "object" THEN payload.config ELSE NoConfig

\* payload?.responses || {}
responsesOf(payload) == IF payload.k = "object" THEN payload.responses ELSE NoResponses

compute(payload) ==
  LET config == configOf(payload)
      responses == responsesOf(payload)
      categories == IF config.categories.k = "array" THEN config.categories.e ELSE <<>>
      sections == categoriesLoop(categories, responses, 1)
  IN  [sections |-> sections, overall |-> overallOf(config, sections)]

computeThrows(payload) ==
  LET config == configOf(payload)
      responses == responsesOf(payload)
      categories == IF config.categories.k = "array" THEN config.categories.e ELSE <<>>
  IN  \/ categoriesThrow(categories, responses)
      \/ overallThrows(config, categoriesLoop(categories, responses, 1))

\* The payload once compute has normalised the response map in place.
payloadAfterCompute_normalised(payload) ==
  IF payload.k = "object" THEN [payload EXCEPT !.responses = NoResponses] ELSE payload

\* The payload once compute is done with it: compute reads config and
\* responses and writes only to out, instResults and byKey, which it creates.
payloadAfterCompute(payload) == payload

\* compute, had it kept out between calls: the sections of the earlier
\* evaluations stay in the tree.
computeAfter_keepsOut(earlier, payload) ==
  IF computeThrows(payload) THEN Thrown
  ELSE LET kept == IF earlier = <<>> \/ earlier[Len(earlier)].threw THEN <<>>
                   ELSE earlier[Len(earlier)].val.sections
       IN  Returned([compute(payload) EXCEPT !.sections = kept \o @])

\* compute(payload) called after the evaluations whose outcomes are earlier:
\* out is created in the call (lines 306-310) and the module keeps no
\* variable outside its functions, so nothing of earlier is read.
computeAfter(earlier, payload) ==
  IF computeThrows(payload) THEN Thrown ELSE Returned(compute(payload))

-----------------------------------------------------------------------------
(* part_000: sumLikert                                                     *)

\* group is the answers object of one scale (key -> value); Object.entries
\* visits each key it holds.  reverseIds is a set of keys.
RECURSIVE sumLikertOver(_, _, _)
sumLikertOver(group, reverseIds, keys) ==
  IF keys = {} THEN [sum |-> 0, answered |-> 0]
  ELSE LET k == CHOOSE x \in keys : TRUE
           rest == sumLikertOver(group, reverseIds, keys \ {k})
           v == Number(group[k])
           vv == IF k \in reverseIds THEN 4 - v.n ELSE v.n
       IN  IF v.t # "NaN"
           THEN [sum |-> rest.sum + vv, answered |-> rest.answered + 1]
           ELSE rest

sumLikert(group, reverseIds) == sumLikertOver(group, reverseIds, DOMAIN group)

-----------------------------------------------------------------------------
(* app.js: the live scores of the renderers                                *)

\* The value of an item's <select> or checked radio: "" until the user picks
\* an option, then the option's value as a string.
DomValue(responses, key) ==
  IF Resp(responses, key).t = "undefined" THEN JStr("") ELSE Resp(responses, key)

\* Number(x || d)
NumberOr(x, d) == IF Truthy(x) THEN Number(x) ELSE JNum(d)

RECURSIVE selectsLoop(_, _, _)
selectsLoop(e, responses, i) ==
  IF i > Len(e) THEN [score |-> 0, max |-> 0]
  ELSE LET rest == selectsLoop(e, responses, i + 1)
           w == NumberOr(e[i].weight, 1).n
           v == NumberOr(DomValue(responses, e[i].key), 0).n
       IN  [score |-> rest.score + v * w, max |-> rest.max + 3 * w]

\* R.weighted_select, compute(): lines 773-784.
R_weighted_select_compute(inst, responses) ==
  LET sums == selectsLoop(OrEmpty(inst.items).e, responses, 1)
  IN  [score |-> sums.score, max |-> sums.max,
       pct |-> IF sums.max # 0 THEN MathRound(sums.score * 100, sums.max) ELSE 0]

RECURSIVE medRadiosLoop(_, _, _, _)
medRadiosLoop(m, baseRisk, responses, i) ==
  IF i > Len(m) THEN [score |-> 0, current |-> 0]
  ELSE LET rest == medRadiosLoop(m, baseRisk, responses, i + 1)
           v == NumberOr(DomValue(responses, m[i].key), 0)
       IN  IF v = JNum(2)
           THEN [score |-> rest.score + NumberOr(baseRisk, 1).n,
                 current |-> rest.current + 1]
           ELSE rest

RECURSIVE medClassesLoop(_, _, _)
medClassesLoop(c, responses, i) ==
  IF i > Len(c) THEN [score |-> 0, current |-> 0]
  ELSE LET rest == medClassesLoop(c, responses, i + 1)
           own == medRadiosLoop(OrEmpty(c[i].meds).e, c[i].baseRisk, responses, 1)
       IN  [score |-> rest.score + own.score, current |-> rest.current + own.current]

\* R.medications, compute(): lines 815-825.
R_medications_compute(inst, responses) ==
  medClassesLoop(OrEmpty(inst.classes).e, responses, 1)

-----------------------------------------------------------------------------
(* The band resolvers: inputs and calls                                    *)

Idle ==
  /\ callee = "none"
  /\ ret = [none |-> TRUE]

\* Position i of a table carries the label L<i>, so a returned label names
\* the place of the band it came from.
PosLabel(i) == CASE i = 1 -> "L1" [] i = 2 -> "L2" [] i = 3 -> "L3" [] OTHER -> "L4"

BandValues == -1..3

BoundValues == {JUndef, JNum(0), JNum(2)}

BandShapes == [min : BoundValues, max : BoundValues]

MkTable(shapes) ==
  Arr([i \in 1..Len(shapes) |->
        Band(shapes[i].min, shapes[i].max, PosLabel(i), "tier")])

BandTables == {MkTable(sh) : sh \in SeqsUpTo(BandShapes, MaxBands)} \cup {Absent}

InitBands ==
  /\ Idle
  /\ arg \in [value : BandValues, bands : BandTables]

Call_bandFromCuts ==
  /\ callee = "none"
  /\ callee' = "bandFromCuts"
  /\ ret' = bandFromCuts(RatOf(arg.value), OrEmpty(arg.bands))
  /\ UNCHANGED arg

Call_pickBand ==
  /\ callee = "none"
  /\ callee' = "pickBand"
  /\ ret' = [label |-> pickBand(RatOf(arg.value), arg.bands)]
  /\ UNCHANGED arg

NextBands == Call_bandFromCuts \/ Call_pickBand

SpecBands == InitBands /\ [][NextBands]_vars

\* The band of a table that holds a value, an undeclared bound being open.
Holds(b, v) ==
  /\ (b.min = JUndef \/ v >= b.min.n)
  /\ (b.max = JUndef \/ v <= b.max.n)

\* The band of a table that holds a value between two declared bounds.
HoldsClosed(b, v) ==
  /\ b.min # JUndef /\ v >= b.min.n
  /\ b.max # JUndef /\ v <= b.max.n

Earliest(S) == CHOOSE i \in S : \A j \in S : i <= j

-----------------------------------------------------------------------------
(* The instrument evaluators: inputs                                       *)

\* Items are keyed by their place, so keys are unique within an instrument.
KeyOf(i) ==
  CASE i = 1 -> "k1" [] i = 2 -> "k2" [] i = 3 -> "k3" [] i = 4 -> "k4" [] OTHER -> "k5"

\* The response map that holds answers[i] under KeyOf(i); an undefined answer
\* is a key the map does not hold.
RespOf(answers) ==
  [k \in {KeyOf(i) : i \in {j \in 1..Len(answers) : answers[j].t # "undefined"}} |->
     answers[CHOOSE i \in 1..Len(answers) : KeyOf(i) = k]]

Answers(shapes) == [i \in 1..Len(shapes) |-> shapes[i].answer]

\* Band tables of the raw totals and of the percents used in the inputs.
TotalBands ==
  Arr(<<Band(JNum(0), JNum(2), "low", "1"), Band(JNum(3), JUndef, "high", "2")>>)

PercentBands ==
  Arr(<<Band(JNum(0), JNum(49), "lowP", "1"), Band(JNum(50), JNum(100), "highP", "2")>>)

AnyBand == Arr(<<Band(JUndef, JUndef, "any", "0")>>)

LikertAnswers ==
  {JUndef, JNull, JStr(""), JStr("abc"), JNum(-1), JNum(1), JNum(3), JStr("2")}

LikertShapes == [reverse : BOOLEAN, answer : LikertAnswers]

LikertInst(shapes, scaleMax, bands) ==
  [Inst("likert", "i1") EXCEPT
     !.items = Arr([i \in 1..Len(shapes) |->
                     [Item(KeyOf(i)) EXCEPT !.reverse = shapes[i].reverse]]),
     !.likert = Likert(scaleMax, bands)]

\* Scenario A: 4 items, scaleMax 4, items 2 and 3 reverse-scored, all answered 1.
ScenarioA ==
  LET sh == [i \in 1..4 |-> [reverse |-> i \in {2, 3}, answer |-> JNum(1)]]
  IN  [inst |-> LikertInst(sh, JNum(4), TotalBands), responses |-> RespOf(Answers(sh))]

LikertInputs ==
  {[inst |-> LikertInst(sh, sm, TotalBands), responses |-> RespOf(Answers(sh))] :
     sh \in SeqsUpTo(LikertShapes, MaxItems), sm \in {JUndef, JNum(2)}}
  \cup {[inst |-> [Inst("likert", "i1") EXCEPT !.likert = Likert(JNum(2), TotalBands)],
         responses |-> RespOf(<<JNum(1)>>)]}
  \cup {ScenarioA}

\* The answers of one scale of the section engine: a key the user answered
\* holds Number(opt.value) of the option picked, 0..4 on a configured scale
\* and NaN for an option whose value is no number.
GroupAnswers == {JUndef, JNum(0), JNum(1), JNum(4), JNaN}

StressKey(i) ==
  CASE i = 1 -> "stress1" [] i = 2 -> "stress2" [] i = 3 -> "stress3"
    [] i = 4 -> "stress4" [] OTHER -> "stress5"

GroupOf(answers) ==
  [k \in {StressKey(i) : i \in {j \in 1..Len(answers) : answers[j].t # "undefined"}} |->
     answers[CHOOSE i \in 1..Len(answers) : StressKey(i) = k]]

\* new Set(["stress2","stress3"]), or null for a scale without reversed items.
ReverseSets == {{}, {"stress2", "stress3"}}

GroupInputs ==
  {[group |-> GroupOf(a), reverseIds |-> r] :
     a \in SeqsUpTo(GroupAnswers, MaxItems + 1), r \in ReverseSets}
  \cup {[group |-> GroupOf([i \in 1..4 |-> JNum(1)]), reverseIds |-> {"stress2", "stress3"}]}

InitLikert ==
  /\ Idle
  /\ arg \in LikertInputs \cup GroupInputs

Call_computeLikert ==
  /\ callee = "none"
  /\ "inst" \in DOMAIN arg
  /\ callee' = "computeLikert"
  /\ ret' = computeLikert(arg.inst, arg.responses)
  /\ UNCHANGED arg

Call_sumLikert ==
  /\ callee = "none"
  /\ "group" \in DOMAIN arg
  /\ callee' = "sumLikert"
  /\ ret' = sumLikert(arg.group, arg.reverseIds)
  /\ UNCHANGED arg

NextLikert == Call_computeLikert \/ Call_sumLikert

SpecLikert == InitLikert /\ [][NextLikert]_vars

\* The items of the instrument given to the evaluator.
ItemsOf(inst) == IF inst.items.k = "array" THEN inst.items.e ELSE <<>>

\* An answer the numeric evaluators count: neither null nor undefined, and a
\* number once converted.
IsNumeric(v) ==
  \/ v.t = "number"
  \/ v.t = "boolean"
  \/ v.t = "string" /\ v.s \in {"", "0", "1", "2", "3", "4", "5", "-1"}

NumericOf(v) ==
  CASE v.t = "number" -> v.n
    [] v.t = "boolean" -> v.n
    [] v.s = "" -> 0
    [] v.s = "0" -> 0
    [] v.s = "1" -> 1
    [] v.s = "2" -> 2
    [] v.s = "3" -> 3
    [] v.s = "4" -> 4
    [] v.s = "5" -> 5
    [] OTHER -> -1

Clamped(x, lo, hi) == IF x < lo THEN lo ELSE IF x > hi THEN hi ELSE x

RECURSIVE SumOver(_, _)
SumOver(S, f) ==
  IF S = {} THEN 0
  ELSE LET x == CHOOSE y \in S : TRUE IN f[x] + SumOver(S \ {x}, f)

\* The total, answered count and max of a Likert instrument as C6 gives them.
C6_Formula ==
  /\ callee = "computeLikert" =>
       LET items == ItemsOf(arg.inst)
           S == IF arg.inst.likert.scaleMax = JUndef THEN 4
                ELSE arg.inst.likert.scaleMax.n
           answered == {i \in 1..Len(items) :
                          IsNumeric(Resp(arg.responses, items[i].key))}
           contrib == [i \in answered |->
                         LET raw == NumericOf(Resp(arg.responses, items[i].key))
                         IN  Clamped(IF items[i].reverse THEN S - raw ELSE raw, 0, S)]
       IN  /\ ret.total = SumOver(answered, contrib)
           /\ ret.answered = Cardinality(answered)
           /\ ret.max = Len(items) * S
  /\ callee = "sumLikert" =>
       LET answered == {k \in DOMAIN arg.group : arg.group[k].t = "number"}
           contrib == [k \in answered |->
                         LET raw == arg.group[k].n
                         IN  Clamped(IF k \in arg.reverseIds THEN 4 - raw ELSE raw, 0, 4)]
       IN  /\ ret.sum = SumOver(answered, contrib)
           /\ ret.answered = Cardinality(answered)

\* Scenario A, given to computeLikert or (as the stress scale) to sumLikert.
IsScenarioA ==
  \/ callee = "computeLikert" /\ arg = ScenarioA
  \/ /\ callee = "sumLikert"
     /\ arg.reverseIds = {"stress2", "stress3"}
     /\ DOMAIN arg.group = {StressKey(i) : i \in 1..4}
     /\ \A k \in DOMAIN arg.group : arg.group[k] = JNum(1)

ScenarioATotal == IF callee = "computeLikert" THEN ret.total ELSE ret.sum

-----------------------------------------------------------------------------
(* The radio (sum style) evaluator                                         *)

RadioAnswers == {JUndef, JStr(""), JStr("2"), JNum(1), JStr("abc")}

\* What an item declares as its maximum: nothing, max, or maxValue and max.
RadioDeclared ==
  {[maxValue |-> JUndef, max |-> JUndef],
   [maxValue |-> JUndef, max |-> JNum(5)],
   [maxValue |-> JNum(3), max |-> JNum(5)]}

RadioShapes == [declared : RadioDeclared, answer : RadioAnswers]

RadioInst(shapes) ==
  [Inst("radio", "i1") EXCEPT
     !.items = Arr([i \in 1..Len(shapes) |->
                     [Item(KeyOf(i)) EXCEPT !.maxValue = shapes[i].declared.maxValue,
                                            !.max = shapes[i].declared.max]]),
     !.bands = TotalBands]

RadioInputs ==
  {[inst |-> RadioInst(sh), responses |-> RespOf(Answers(sh))] :
     sh \in SeqsUpTo(RadioShapes, MaxItems)}
  \cup {[inst |-> Inst("radio", "i1"), responses |-> RespOf(<<JNum(1)>>)]}

InitRadio ==
  /\ Idle
  /\ arg \in RadioInputs

Call_computeRadio ==
  /\ callee = "none"
  /\ callee' = "computeRadio"
  /\ ret' = computeRadio(arg.inst, arg.responses)
  /\ UNCHANGED arg

NextRadio == Call_computeRadio

SpecRadio == InitRadio /\ [][NextRadio]_vars

\* An item has a selection when its key holds something other than "".
HasSelection(responses, key) ==
  Resp(responses, key) # JUndef /\ Resp(responses, key) # JStr("")

\* The maximum an item declares (maxValue before max), if it declares one.
Declares(it) == it.maxValue # JUndef \/ it.max # JUndef

DeclaredMax(it) == IF it.maxValue # JUndef THEN it.maxValue.n ELSE it.max.n

Largest(S) == CHOOSE x \in S : \A y \in S : y <= x

(* C9: for a radio (sum style) instrument the total is the sum of the        *)
(* numeric values of the selected options, an item with no selection adds 0   *)
(* and is not counted in answered, and max is the declared per-item maximum   *)
(* (the largest, where items declare different ones) and 0 when none is       *)
(* declared.                                                                  *)
C9_RadioSum ==
  callee = "computeRadio" =>
    LET items == ItemsOf(arg.inst)
        selected == {i \in 1..Len(items) : HasSelection(arg.responses, items[i].key)}
        value == [i \in selected |->
                    IF IsNumeric(Resp(arg.responses, items[i].key))
                    THEN NumericOf(Resp(arg.responses, items[i].key)) ELSE 0]
        declared == {DeclaredMax(items[i]) : i \in {j \in 1..Len(items) : Declares(items[j])}}
    IN  /\ ret.total = SumOver(selected, value)
        /\ ret.answered = Cardinality(selected)
        /\ ret.max = IF declared = {} THEN 0 ELSE Largest(declared)

\* One item selected, one left without a selection, a declared maximum.
C9_Witness ==
  /\ callee = "computeRadio"
  /\ Len(ItemsOf(arg.inst)) = 2
  /\ Resp(arg.responses, "k1") = JStr("2")
  /\ Resp(arg.responses, "k2") = JStr("")
  /\ ret.total = 2
  /\ ret.answered = 1
  /\ ret.max = 3

-----------------------------------------------------------------------------
(* The Yes/No list evaluator                                               *)

YnAnswers ==
  {JUndef, JBool(TRUE), JBool(FALSE), JNum(1), JNum(0), JStr("1"), JStr("true"), JStr("Yes")}

YnPoints ==
  {[scoreIfChecked |-> JNum(4), scoreIfUnchecked |-> JUndef],
   [scoreIfChecked |-> JNum(4), scoreIfUnchecked |-> JNum(1)],
   [scoreIfChecked |-> JUndef, scoreIfUnchecked |-> JNum(1)]}

YnShapes == [points : YnPoints, answer : YnAnswers]

YnInst(shapes) ==
  [Inst("yn_list", "i1") EXCEPT
     !.items = Arr([i \in 1..Len(shapes) |->
                     [Item(KeyOf(i)) EXCEPT
                        !.scoreIfChecked = shapes[i].points.scoreIfChecked,
                        !.scoreIfUnchecked = shapes[i].points.scoreIfUnchecked]]),
     !.bands = TotalBands]

\* Scenario B: 3 items, scoreIfChecked 4 for all, only item 2 checked; the
\* other two are left untouched (no key) or answered otherwise.
ScenarioB(other) ==
  LET sh == [i \in 1..3 |->
               [points |-> [scoreIfChecked |-> JNum(4), scoreIfUnchecked |-> JUndef],
                answer |-> IF i = 2 THEN JBool(TRUE) ELSE other]]
  IN  [inst |-> YnInst(sh), responses |-> RespOf(Answers(sh))]

YnInputs ==
  {[inst |-> YnInst(sh), responses |-> RespOf(Answers(sh))] :
     sh \in SeqsUpTo(YnShapes, MaxItems)}
  \cup {ScenarioB(JUndef), ScenarioB(JBool(FALSE)), ScenarioB(JStr("Yes"))}

InitYn ==
  /\ Idle
  /\ arg \in YnInputs

Call_computeYnList ==
  /\ callee = "none"
  /\ callee' = "computeYnList"
  /\ ret' = computeYnList(arg.inst, arg.responses)
  /\ UNCHANGED arg

NextYn == Call_computeYnList

SpecYn == InitYn /\ [][NextYn]_vars

\* Checked: boolean true, numeric 1, string "1" or string "true".
Checked(v) ==
  \/ v.t = "boolean" /\ v.n = 1
  \/ v.t = "number" /\ v.n = 1
  \/ v.t = "string" /\ v.s \in {"1", "true"}

PointsOr0(p) == IF p = JUndef THEN 0 ELSE p.n

YnPointsOf(it, v) ==
  IF Checked(v) THEN PointsOr0(it.scoreIfChecked) ELSE PointsOr0(it.scoreIfUnchecked)

YnMaxIs ==
  LET items == ItemsOf(arg.inst)
      best == [i \in 1..Len(items) |->
                 IF PointsOr0(items[i].scoreIfChecked) >= PointsOr0(items[i].scoreIfUnchecked)
                 THEN PointsOr0(items[i].scoreIfChecked)
                 ELSE PointsOr0(items[i].scoreIfUnchecked)]
  IN  ret.max = SumOver(1..Len(items), best)

IsScenarioB == \E other \in {JUndef, JBool(FALSE), JStr("Yes")} : arg = ScenarioB(other)

(* C7 (amended): the Yes/No-list total is the sum over the items that have a  *)
(* response (an item whose key the response map does not hold adds nothing)   *)
(* of (checked ? pointsIfChecked : pointsIfUnchecked), an item being checked  *)
(* exactly when its response is true, 1, "1" or "true"; the max is the sum    *)
(* over all items of max(pointsIfChecked, pointsIfUnchecked); 3 items with    *)
(* pointsIfChecked 4 and only item 2 checked give total 4 and max 12.         *)
C7_YnTotalOverAnswered ==
  callee = "computeYnList" =>
    LET items == ItemsOf(arg.inst)
        present == {i \in 1..Len(items) : Resp(arg.responses, items[i].key) # JUndef}
        pts == [i \in present |-> YnPointsOf(items[i], Resp(arg.responses, items[i].key))]
    IN  /\ ret.total = SumOver(present, pts)
        /\ YnMaxIs
        /\ IsScenarioB => ret.total = 4 /\ ret.max = 12

\* An item with points for the unchecked answer was left without a response
\* beside a checked one.
C7_Witness ==
  /\ callee = "computeYnList"
  /\ Len(ItemsOf(arg.inst)) = 2
  /\ arg.inst.items.e[1].scoreIfUnchecked = JNum(1)
  /\ Resp(arg.responses, "k1") = JUndef
  /\ Resp(arg.responses, "k2") = JStr("true")
  /\ ret.total = 4

(* C7 as stated: the total is the sum over all items of the instrument of    *)
(* (checked ? pointsIfChecked : pointsIfUnchecked), the max the sum over all  *)
(* items of max(pointsIfChecked, pointsIfUnchecked).                          *)
C7_AsStated ==
  callee = "computeYnList" =>
    LET items == ItemsOf(arg.inst)
        pts == [i \in 1..Len(items) |->
                  YnPointsOf(items[i], Resp(arg.responses, items[i].key))]
    IN  /\ ret.total = SumOver(1..Len(items), pts)
        /\ YnMaxIs
        /\ IsScenarioB => ret.total = 4 /\ ret.max = 12

-----------------------------------------------------------------------------
(* The weighted-select evaluator and the renderer's live score             *)

WeightedAnswers == {JUndef, JStr("0"), JStr("3"), JNum(1), JStr("5")}

Scale0to3 == Arr(<<Option(JNum(0)), Option(JNum(1)), Option(JNum(2)), Option(JNum(3))>>)

WeightedShapes ==
  [weight : {JNum(1), JNum(2)}, options : {Absent, Scale0to3}, answer : WeightedAnswers]

WeightedInst(shapes, percentBands) ==
  [Inst("weighted_select", "i1") EXCEPT
     !.items = Arr([i \in 1..Len(shapes) |->
                     [Item(KeyOf(i)) EXCEPT !.weight = shapes[i].weight,
                                            !.options = shapes[i].options]]),
     !.bands = TotalBands,
     !.percentBands = percentBands]

\* Scenario C: 2 items, weights [1,2], max option value 3, selections [3,0].
ScenarioC ==
  LET sh == <<[weight |-> JNum(1), options |-> Scale0to3, answer |-> JStr("3")],
              [weight |-> JNum(2), options |-> Scale0to3, answer |-> JStr("0")]>>
  IN  [inst |-> WeightedInst(sh, PercentBands), responses |-> RespOf(Answers(sh))]

WeightedInputs ==
  {[inst |-> WeightedInst(sh, pb), responses |-> RespOf(Answers(sh))] :
     sh \in SeqsUpTo(WeightedShapes, MaxItems), pb \in {Absent, PercentBands}}

InitWeighted ==
  /\ Idle
  /\ arg \in WeightedInputs

Call_computeWeightedSelect ==
  /\ callee = "none"
  /\ callee' = "computeWeightedSelect"
  /\ ret' = computeWeightedSelect(arg.inst, arg.responses)
  /\ UNCHANGED arg

\* What a <select> of the rendered form can hold: nothing chosen, or one of
\* the scale's values as a string.
Selectable(responses) ==
  \A k \in DOMAIN responses : responses[k] \in {JStr("0"), JStr("3")}

\* The renderer draws the 0-3 scale for every item and scores on change.
Call_R_weighted_select ==
  /\ callee = "none"
  /\ Selectable(arg.responses)
  /\ callee' = "R_weighted_select"
  /\ ret' = R_weighted_select_compute(arg.inst, arg.responses)
  /\ UNCHANGED arg

NextWeighted == Call_computeWeightedSelect \/ Call_R_weighted_select

SpecWeighted == InitWeighted /\ [][NextWeighted]_vars

\* The largest option value of an item (0 without options).
MaxOptionValue(it) ==
  IF ItemOptions(it) = <<>> THEN 0
  ELSE Largest({ItemOptions(it)[j].value.n : j \in 1..Len(ItemOptions(it))})

(* C4: in a weighted-select instrument each item's selected option value is  *)
(* multiplied by the item's weight before summation and the maximum is the   *)
(* sum over items of weight x maximum option value; weights [1,2], maximum   *)
(* option value 3 and selections [3,0] give total 3, max 9, percent 33.      *)
C4_WeightedByItemWeight ==
  callee = "computeWeightedSelect" =>
    LET items == ItemsOf(arg.inst)
        answered == {i \in 1..Len(items) : IsNumeric(Resp(arg.responses, items[i].key))}
        term == [i \in answered |->
                   items[i].weight.n *
                     Clamped(NumericOf(Resp(arg.responses, items[i].key)), 0,
                             MaxOptionValue(items[i]))]
        top == [i \in 1..Len(items) |-> items[i].weight.n * MaxOptionValue(items[i])]
    IN  /\ ret.total = SumOver(answered, term)
        /\ ret.max = SumOver(1..Len(items), top)
        /\ arg = ScenarioC =>
             ret.total = 3 /\ ret.max = 9 /\ MathRound(ret.percent.num, ret.percent.den) = 33

\* Scenario C in the engine: the weights are not read, so max is 6 and the
\* percent 50.
C4_ScenarioCUnweighted ==
  /\ callee = "computeWeightedSelect"
  /\ arg = ScenarioC
  /\ ret.total = 3
  /\ ret.max = 6
  /\ ret.percent = RatOf(50)

\* The renderer's live score does weight the items: scenario C gives 3, 9, 33.
RendererWeighsItems ==
  callee = "R_weighted_select" =>
    LET items == ItemsOf(arg.inst)
        term == [i \in 1..Len(items) |->
                   items[i].weight.n *
                     (IF Resp(arg.responses, items[i].key) = JUndef THEN 0
                      ELSE NumericOf(Resp(arg.responses, items[i].key)))]
        top == [i \in 1..Len(items) |-> items[i].weight.n * 3]
    IN  /\ ret.score = SumOver(1..Len(items), term)
        /\ ret.max = SumOver(1..Len(items), top)
        /\ arg = ScenarioC => ret.score = 3 /\ ret.max = 9 /\ ret.pct = 33

\* A rational percent within a band's bounds (an undeclared bound is open).
HoldsPercent(b, p) ==
  /\ (b.min = JUndef \/ p.num >= b.min.n * p.den)
  /\ (b.max = JUndef \/ p.num <= b.max.n * p.den)

(* C5: for a weighted-select instrument percent = total / max x 100 when     *)
(* max > 0 and 0 when max is 0, and the band is the one the percent resolves *)
(* to in the instrument's percent-band table (the empty band without such a  *)
(* table), never the band of the raw total in the raw-total band table.      *)
C5_PercentAndPercentBands ==
  callee = "computeWeightedSelect" =>
    LET e == OrEmpty(arg.inst.percentBands).e
        in == {i \in 1..Len(e) : HoldsPercent(e[i], ret.percent)}
    IN  /\ ret.max > 0 => ret.percent.num * ret.max = ret.total * 100 * ret.percent.den
        /\ ret.max = 0 => ret.percent = RatOf(0)
        /\ ret.percent.den > 0
        /\ IF in = {} THEN ret.band = NoBand
           ELSE ret.band.label = e[Earliest(in)].label

\* Total 1 of max 3: the raw total lies in the raw band "low", the percent
\* 33.3 in the percent band "lowP", and "lowP" is the band reported.
C5_Witness ==
  /\ callee = "computeWeightedSelect"
  /\ ret.total = 1 /\ ret.max = 3
  /\ ret.percent = Rat(100, 3)
  /\ bandFromCuts(RatOf(ret.total), arg.inst.bands).label = "low"
  /\ arg.inst.percentBands = PercentBands
  /\ ret.band.label = "lowP"

-----------------------------------------------------------------------------
(* The medication-classes evaluator and the renderer's live score          *)

\* A medication's answer: none, the checkbox forms, or the status radios'
\* "0" (never), "1" (past), "2" (currently taking).
MedAnswers == {JUndef, JBool(TRUE), JStr("1"), JStr("2"), JStr("0")}

MedShapes == [weight : {JUndef, JNum(2)}, answer : MedAnswers]

MedsOf(shapes, from, to) ==
  Arr([i \in 1..(to - from + 1) |-> Med(KeyOf(from + i - 1), shapes[from + i - 1].weight)])

\* The medications shapes[1..split] form the first class, the rest the second.
MedInst(shapes, split, risk1, risk2) ==
  [Inst("medications", "i1") EXCEPT
     !.classes = Arr(<<MedClass(MedsOf(shapes, 1, split), risk1),
                       MedClass(MedsOf(shapes, split + 1, Len(shapes)), risk2)>>),
     !.bands = TotalBands]

MedInputs ==
  UNION {{[inst |-> MedInst(sh, split, r1, r2), responses |-> RespOf(Answers(sh))] :
            split \in 1..Len(sh), r1 \in {JUndef, JNum(2)}, r2 \in {JUndef, JNum(2)}} :
         sh \in SeqsUpTo(MedShapes, MaxItems) \ {<<>>}}

InitMeds ==
  /\ Idle
  /\ arg \in MedInputs

Call_computeMedications ==
  /\ callee = "none"
  /\ callee' = "computeMedications"
  /\ ret' = computeMedications(arg.inst, arg.responses)
  /\ UNCHANGED arg

\* What the status radios of the rendered form can hold.
StatusValues(responses) ==
  \A k \in DOMAIN responses : responses[k] \in {JStr("0"), JStr("1"), JStr("2")}

Call_R_medications ==
  /\ callee = "none"
  /\ StatusValues(arg.responses)
  /\ callee' = "R_medications"
  /\ ret' = R_medications_compute(arg.inst, arg.responses)
  /\ UNCHANGED arg

NextMeds == Call_computeMedications \/ Call_R_medications

SpecMeds == InitMeds /\ [][NextMeds]_vars

\* Every medication of every class, as <<class, place>> pairs.
AllMeds(inst) ==
  {<<c, m>> \in (1..Len(inst.classes.e)) \X (1..MaxItems + 1) :
     m <= Len(inst.classes.e[c].meds.e)}

MedAt(inst, cm) == inst.classes.e[cm[1]].meds.e[cm[2]]

\* What the engine does: the total is the sum of the own weights (0 for a
\* medication that declares none) of the checked medications, checkedCount
\* their number; in the renderer's live score a medication counts when it is
\* currently taken and weighs its class's baseRisk (1 when there is none).
MedicationsSumOwnWeights ==
  /\ callee = "computeMedications" =>
       LET checked == {cm \in AllMeds(arg.inst) :
                         Checked(Resp(arg.responses, MedAt(arg.inst, cm).key))}
           w == [cm \in checked |-> PointsOr0(MedAt(arg.inst, cm).weight)]
       IN  /\ ret.total = SumOver(checked, w)
           /\ ret.checkedCount = Cardinality(checked)
  /\ callee = "R_medications" =>
       LET taken == {cm \in AllMeds(arg.inst) :
                       Resp(arg.responses, MedAt(arg.inst, cm).key) = JStr("2")}
           w == [cm \in taken |->
                   IF arg.inst.classes.e[cm[1]].baseRisk = JUndef THEN 1
                   ELSE arg.inst.classes.e[cm[1]].baseRisk.n]
       IN  /\ ret.score = SumOver(taken, w)
           /\ ret.current = Cardinality(taken)

\* Scenario D: one class, of baseRisk 2, with one medication, and it is
\* checked.
IsScenarioD ==
  /\ AllMeds(arg.inst) = {<<1, 1>>}
  /\ arg.inst.classes.e[1].baseRisk = JNum(2)
  /\ Checked(Resp(arg.responses, "k1"))

\* The weight a schema gives a medication: its own, or else the baseRisk
\* weight of its class, or else 0.
WeightOfMed(inst, cm) ==
  IF MedAt(inst, cm).weight # JUndef THEN MedAt(inst, cm).weight.n
  ELSE PointsOr0(inst.classes.e[cm[1]].baseRisk)

(* C8: the medication-classes total is the sum, over every medication of     *)
(* every class, of the medication's weight when it is checked and 0          *)
(* otherwise, and checkedCount is the number of checked medications, kept    *)
(* apart from the total; one checked medication in a class with baseRisk     *)
(* weight 2 gives total 2 and checkedCount 1.                                *)
C8_MedicationsTotal ==
  callee = "computeMedications" =>
    LET checked == {cm \in AllMeds(arg.inst) :
                      Checked(Resp(arg.responses, MedAt(arg.inst, cm).key))}
        w == [cm \in checked |-> WeightOfMed(arg.inst, cm)]
    IN  /\ ret.total = SumOver(checked, w)
        /\ ret.checkedCount = Cardinality(checked)
        /\ IsScenarioD => ret.total = 2 /\ ret.checkedCount = 1

\* Scenario D with the weight on the class alone: the engine reports total 0.
C8_BaseRiskNotRead ==
  /\ callee = "computeMedications"
  /\ IsScenarioD
  /\ arg.inst.classes.e[1].meds.e[1].weight = JUndef
  /\ ret.total = 0
  /\ ret.checkedCount = 1

\* The renderer's live score of scenario D is 2 for 1 medication.
ScenarioDInRenderer ==
  callee = "R_medications" /\ AllMeds(arg.inst) = {<<1, 1>>}
    /\ arg.inst.classes.e[1].baseRisk = JNum(2) /\ Resp(arg.responses, "k1") = JStr("2")
    => ret.score = 2 /\ ret.current = 1

-----------------------------------------------------------------------------
(* Demographics and BMI                                                    *)

\* parseFloat of a form value: a number as it is, NaN for anything that does
\* not start with a number.
parseFloat(v) ==
  CASE v.t = "number" -> v
    [] v.t = "string" /\ v.s # "" -> NumberOfString(v.s)
    [] OTHER -> JNaN

NoRat == [null |-> TRUE]

\* part_000 computeBMI, metric branch, the height given in cm: kg / m^2 or
\* null.
computeBMI(heightCm, weight) ==
  LET cm == parseFloat(heightCm)
      kg == parseFloat(weight)
  IN  IF cm.t = "number" /\ cm.n > 0 /\ kg.t = "number" /\ kg.n > 0
      THEN Rat(kg.n * 10000, cm.n * cm.n)
      ELSE NoRat

HeightAnswers == {JUndef, JStr(""), JNum(-100), JNum(0), JNum(100), JNum(200)}

WeightAnswers == {JUndef, JStr(""), JNum(-20), JNum(0), JNum(20), JNum(50)}

AgeAnswers == {JUndef, JNum(70)}

DemoResponses(a, h, w) ==
  LET given == [age |-> a, height |-> h, weight |-> w]
  IN  [k \in {f \in {"age", "height", "weight"} : given[f] # JUndef} |-> given[k]]

DemoInst(fields, bmiBands) ==
  [Inst("demographics", "i1") EXCEPT
     !.fields = fields, !.ageBands = AnyBand, !.bmiBands = bmiBands]

DemoInputs ==
  {[inst |-> DemoInst(f, bb), responses |-> DemoResponses(a, h, w)] :
     f \in {Fields("age", "height", "weight"), Fields("age", "", "weight")},
     bb \in {Absent, AnyBand},
     a \in AgeAnswers, h \in HeightAnswers, w \in WeightAnswers}

InitDemo ==
  /\ Idle
  /\ arg \in DemoInputs

Call_computeDemographics ==
  /\ callee = "none"
  /\ callee' = "computeDemographics"
  /\ ret' = computeDemographics(arg.inst, arg.responses)
  /\ UNCHANGED arg

Call_computeBmi ==
  /\ callee = "none"
  /\ callee' = "computeBmi"
  /\ ret' = computeBmi(arg.inst, arg.responses)
  /\ UNCHANGED arg

Call_computeBMI ==
  /\ callee = "none"
  /\ callee' = "computeBMI"
  /\ ret' = [bmi |-> computeBMI(Resp(arg.responses, "height"),
                                Resp(arg.responses, "weight"))]
  /\ UNCHANGED arg

NextDemo == Call_computeDemographics \/ Call_computeBmi \/ Call_computeBMI

SpecDemo == InitDemo /\ [][NextDemo]_vars

\* An input that is there and is a positive number.
Positive(v) == v.t = "number" /\ v.n > 0

\* Both inputs of the BMI are asked for by the instrument and are positive.
BothPositive ==
  /\ arg.inst.fields.height # "" /\ arg.inst.fields.weight # ""
  /\ Positive(Resp(arg.responses, "height"))
  /\ Positive(Resp(arg.responses, "weight"))

(* C10: when the height or the weight needed for the BMI is missing, zero or *)
(* negative, the BMI is reported as unavailable (null) and no BMI band       *)
(* lookup is made (the BMI band stays the empty band); a BMI value and band  *)
(* appear only when both inputs are positive numbers.                        *)
C10_BmiOnlyForPositiveInputs ==
  callee \in {"computeDemographics", "computeBmi"} =>
    /\ ~BothPositive => ret.bmi = NoBmi /\ ret.bmiBand = NoBand
    /\ BothPositive => ret.bmi # NoBmi

\* A height of -100 cm and a weight of 20 kg: a BMI of 20.0 is reported and
\* looked up in the BMI band table.
C10_NegativeHeightScored ==
  /\ callee = "computeBmi"
  /\ Resp(arg.responses, "height") = JNum(-100)
  /\ Resp(arg.responses, "weight") = JNum(20)
  /\ ret.bmi = Bmi(200)
  /\ ret.bmiBand.label = "any"

\* What the engine does: the BMI is unavailable exactly when an input is
\* missing or zero, and part_000's computeBMI when one is not positive.
BmiUnlessZeroOrMissing ==
  LET h == Resp(arg.responses, "height")
      w == Resp(arg.responses, "weight")
      nonzero == /\ arg.inst.fields.height # ""
                 /\ h.t = "number" /\ h.n # 0
                 /\ w.t = "number" /\ w.n # 0
  IN  /\ callee \in {"computeDemographics", "computeBmi"} =>
           /\ nonzero <=> ret.bmi # NoBmi
           /\ ~nonzero => ret.bmiBand = NoBand
      /\ callee = "computeBMI" =>
           (ret.bmi # NoRat <=> Positive(h) /\ Positive(w))

-----------------------------------------------------------------------------
(* The entry point: compute                                                *)

InstKey(i) == CASE i = 1 -> "i1" [] i = 2 -> "i2" [] i = 3 -> "i3" [] OTHER -> "i4"

\* The kinds of instrument node a schema is built from: well-formed ones, one
\* of a type the engine does not know, and malformed ones.
InstKinds == {"likert", "weighted", "mystery", "null", "nullItem", "badBands"}

OneItem == <<[weight |-> JNum(1), options |-> Scale0to3, answer |-> JUndef]>>

InstOfKind(kind, key) ==
  CASE kind = "likert" ->
         [LikertInst(<<[reverse |-> FALSE, answer |-> JUndef],
                       [reverse |-> TRUE, answer |-> JUndef]>>, JNum(4), TotalBands)
            EXCEPT !.key = key]
    [] kind = "weighted" -> [WeightedInst(OneItem, PercentBands) EXCEPT !.key = key]
    [] kind = "mystery" -> Inst("mystery", key)
    [] kind = "null" -> Nil
    [] kind = "nullItem" -> [Inst("likert", key) EXCEPT !.items = Arr(<<Nil>>)]
    [] OTHER -> [Inst("yn_list", key) EXCEPT !.bands = NotIterable]

FlatInstruments ==
  {Arr([i \in 1..Len(kinds) |-> InstOfKind(kinds[i], InstKey(i))]) :
     kinds \in SeqsUpTo(InstKinds, MaxInsts)}

SubAccordions ==
  {Absent,
   Arr(<<Nil>>),
   Arr(<<SubGroup("s", Absent)>>),
   Arr(<<SubGroup("s", Arr(<<InstOfKind("mystery", "s1")>>))>>),
   Arr(<<SubGroup("s", Arr(<<InstOfKind("weighted", "s1")>>))>>)}

Summaries ==
  {NoSummary,
   Summary("sum", Arr(<<"i1", "i2">>), TotalBands, Absent),
   Summary("percent", Arr(<<"i1", "s1">>), Absent, PercentBands),
   Summary("sum", NotIterable, TotalBands, Absent)}

Overalls == {Overall("", Absent, FALSE), Overall("percent", PercentBands, FALSE)}

ResponseMaps == {<<>>, RespOf(<<JNum(1), JStr("3")>>)}

TwoItems ==
  <<[weight |-> JNum(1), options |-> Scale0to3, answer |-> JUndef],
    [weight |-> JNum(1), options |-> Scale0to3, answer |-> JUndef]>>

\* The instrument lists of the categories of a schema with two categories.
CategoryLists ==
  {Arr(<<>>),
   Arr(<<InstOfKind("weighted", "w1")>>),
   Arr(<<InstOfKind("likert", "l1"),
         [WeightedInst(TwoItems, PercentBands) EXCEPT !.key = "w2"]>>),
   Arr(<<InstOfKind("mystery", "m1"), InstOfKind("weighted", "w1")>>),
   Arr(<<InstOfKind("likert", "l1")>>)}

CompositeRules ==
  {Overall("", Absent, FALSE), Overall("sum", PercentBands, FALSE),
   Overall("percent", PercentBands, FALSE), Overall("percent", Absent, FALSE),
   Overall("percent", PercentBands, TRUE)}

TwoCategoryPayloads ==
  {Payload(Config(Arr(<<Category("c1", first, Absent, summary),
                        Category("c2", second, Absent, NoSummary)>>), overall), responses) :
     first \in CategoryLists, second \in CategoryLists,
     summary \in {NoSummary, Summary("sum", Arr(<<"l1", "w1">>), TotalBands, Absent)},
     overall \in CompositeRules, responses \in ResponseMaps}

\* Schemas whose first category has two or three sub-groups, one of them
\* without an instrument list, next to its flat instruments.
SubGroupPayloads ==
  {Payload(Config(Arr(<<Category("c1", flat,
                                 Arr(<<SubGroup("s", Arr(<<InstOfKind("mystery", "s1"),
                                                           InstOfKind("weighted", "s2")>>))>>
                                     \o middle
                                     \o <<SubGroup("t", Arr(<<InstOfKind("likert", "t1")>>))>>),
                                 NoSummary),
                        Category("c2", second, Absent, NoSummary)>>),
                  Overall("percent", PercentBands, FALSE)), responses) :
     flat \in CategoryLists, middle \in {<<>>, <<SubGroup("u", Absent)>>},
     second \in {Absent, Arr(<<InstOfKind("weighted", "w1")>>)},
     responses \in ResponseMaps}

Payloads ==
  {Payload(Config(Arr(<<Category("c1", flat, subs, summary)>>), overall), responses) :
     flat \in FlatInstruments, subs \in SubAccordions, summary \in Summaries,
     overall \in Overalls, responses \in ResponseMaps}
  \cup TwoCategoryPayloads
  \cup SubGroupPayloads
  \cup {NoPayload,
        Payload(NoConfig, <<>>),
        Payload(Config(Arr(<<Nil>>), Overall("", Absent, TRUE)), <<>>)}

InitCompute ==
  /\ Idle
  /\ arg \in Payloads

Call_compute ==
  /\ callee = "none"
  /\ callee' = "compute"
  /\ ret' = IF computeThrows(arg) THEN Thrown ELSE Returned(compute(arg))
  /\ arg' = payloadAfterCompute(arg)

NextCompute == Call_compute

SpecCompute == InitCompute /\ [][NextCompute]_vars

\* The type tags the dispatcher knows.
Recognised ==
  {"demographics", "bmi", "yn_list", "likert", "radio", "weighted_select", "medications"}

RemoveAt(q, p) == [i \in 1..(Len(q) - 1) |-> IF i < p THEN q[i] ELSE q[i + 1]]

\* The payload whose only category has lost its flat instrument p.
WithoutFlat(payload, p) ==
  [payload EXCEPT !.config.categories.e[1].instruments.e = RemoveAt(@, p)]

\* The payload whose only category has lost instrument p of its sub-group.
WithoutSub(payload, p) ==
  [payload EXCEPT
     !.config.categories.e[1].subAccordions.e[1].instruments.e = RemoveAt(@, p)]

\* compute returned the result tree of a schema with one category.
ReturnedOneCategory ==
  /\ callee = "compute"
  /\ ret.threw = FALSE
  /\ arg.k = "object"
  /\ arg.config.categories.k = "array"
  /\ Len(arg.config.categories.e) = 1

FlatOf(payload) == OrEmpty(payload.config.categories.e[1].instruments).e

SubOf(payload) ==
  LET subs == OrEmpty(payload.config.categories.e[1].subAccordions).e
  IN  IF subs = <<>> THEN <<>> ELSE OrEmpty(subs[1].instruments).e

IsUnsupportedResult(entry, inst) ==
  /\ entry.key = inst.key
  /\ entry.res.type = "unknown"
  /\ entry.res.note = <<"Unsupported instrument type: ", inst.type>>

(* C2: an instrument whose type tag is not a recognised one gets a result    *)
(* marked as unsupported that carries a note naming the type, and every      *)
(* other instrument of its category, flat or in a sub-group, before or after *)
(* it, gets exactly the result it gets when the unsupported instrument is    *)
(* not in the schema; the category summary and the overall result are those  *)
(* of the schema without it too.                                             *)
C2_UnsupportedIsolated ==
  ReturnedOneCategory =>
    LET flat == FlatOf(arg)
        sub == SubOf(arg)
        list == ret.val.sections[1].instruments
    IN  /\ Len(list) = Len(flat) + Len(sub)
        /\ \A p \in 1..Len(flat) :
             flat[p].type \notin Recognised =>
               /\ IsUnsupportedResult(list[p], flat[p])
               /\ compute(WithoutFlat(arg, p)).sections[1].instruments = RemoveAt(list, p)
               /\ compute(WithoutFlat(arg, p)).sections[1].summary = ret.val.sections[1].summary
               /\ compute(WithoutFlat(arg, p)).overall = ret.val.overall
        /\ \A p \in 1..Len(sub) :
             sub[p].type \notin Recognised =>
               /\ IsUnsupportedResult(list[Len(flat) + p], sub[p])
               /\ list[Len(flat) + p].sub = <<"s">>
               /\ compute(WithoutSub(arg, p)).sections[1].instruments
                    = RemoveAt(list, Len(flat) + p)
               /\ compute(WithoutSub(arg, p)).sections[1].summary = ret.val.sections[1].summary
               /\ compute(WithoutSub(arg, p)).overall = ret.val.overall

\* An unsupported instrument comes first; the Likert instrument after it and
\* the weighted select of the sub-group are scored from the answers.
C2_Witness ==
  /\ ReturnedOneCategory
  /\ Len(FlatOf(arg)) = 2
  /\ FlatOf(arg)[1].type = "mystery"
  /\ Len(ret.val.sections[1].instruments) = 3
  /\ ret.val.sections[1].instruments[1].res.type = "unknown"
  /\ ret.val.sections[1].instruments[2].res.type = "likert"
  /\ ret.val.sections[1].instruments[2].res.total = 2
  /\ ret.val.sections[1].instruments[3].res.type = "weighted_select"
  /\ ret.val.sections[1].instruments[3].res.total = 1

(* C3: compute never throws for schema data that is present but malformed:   *)
(* whatever missing fields, null entries or wrongly typed entries the        *)
(* categories, instruments, sub-groups, items and band tables of a config    *)
(* hold, compute returns a result tree; it fails only for a payload that is  *)
(* wholly absent.                                                            *)
C3_NoThrowOnMalformedSchema ==
  callee = "compute" /\ ret.threw => arg.k # "object"

\* A null entry in a category's instrument list: compute throws.
C3_NullInstrumentThrows ==
  /\ callee = "compute"
  /\ arg.k = "object"
  /\ arg.config.categories.k = "array"
  /\ arg.config.categories.e[1].nil = FALSE
  /\ arg.config.categories.e[1].instruments = Arr(<<Nil>>)
  /\ arg.config.categories.e[1].subAccordions = Absent
  /\ arg.config.categories.e[1].summary = NoSummary
  /\ ret.threw

\* compute without a payload returns the empty result tree: it does not fail.
AbsentPayloadReturns ==
  callee = "compute" /\ arg.k # "object" =>
    ret = Returned([sections |-> <<>>, overall |-> NoOverall])

-----------------------------------------------------------------------------
(* The category summary                                                    *)

\* Results the evaluators produce, as far as the summary reads them: a type,
\* and a total and a max where the type has them.
Scored(type, total, max) == [type |-> type, total |-> total, max |-> max]

ResultPool ==
  {Scored("weighted_select", 6, 12), Scored("weighted_select", 3, 9),
   Scored("weighted_select", 0, 0), Scored("radio", 6, 3), Scored("radio", -1, 3),
   Scored("likert", 2, 8), Unsupported("mystery")}

SourceKey(i) == CASE i = 1 -> "a" [] i = 2 -> "b" [] i = 3 -> "c" [] OTHER -> "d"

\* The result list of a category: the i-th result under the key SourceKey(i).
ResultLists ==
  {[i \in 1..Len(rs) |-> [key |-> SourceKey(i), title |-> "", sub |-> <<>>, res |-> rs[i]]] :
     rs \in SeqsUpTo(ResultPool, MaxInsts)}

SourceLists ==
  {Absent, Arr(<<"a">>), Arr(<<"a", "b">>), Arr(<<"zz", "b">>), Arr(<<"b", "b">>)}

SummaryTables ==
  {[bands |-> Absent, percentBands |-> Absent],
   [bands |-> TotalBands, percentBands |-> Absent],
   [bands |-> Absent, percentBands |-> PercentBands],
   [bands |-> TotalBands, percentBands |-> PercentBands]}

SummaryRules ==
  {Summary(mode, src, t.bands, t.percentBands) :
     mode \in {"sum", "percent", "custom"}, src \in SourceLists, t \in SummaryTables}
  \cup {NoSummary}

SummaryInputs ==
  {[catDef |-> Category("c1", Absent, Absent, rule), instResults |-> rs] :
     rule \in SummaryRules, rs \in ResultLists}

InitSummary ==
  /\ Idle
  /\ arg \in SummaryInputs

Call_summarizeCategory ==
  /\ callee = "none"
  /\ callee' = "summarizeCategory"
  /\ ret' = summarizeCategory(arg.catDef.key, arg.catDef, arg.instResults)
  /\ UNCHANGED arg

NextSummary == Call_summarizeCategory

SpecSummary == InitSummary /\ [][NextSummary]_vars

\* The places of the source list whose key has a result in the category.
Found ==
  {i \in 1..Len(OrEmpty(arg.catDef.summary.sources).e) :
     \E j \in 1..Len(arg.instResults) :
       arg.instResults[j].key = arg.catDef.summary.sources.e[i]}

ResultOfSource(i) ==
  arg.instResults[CHOOSE j \in 1..Len(arg.instResults) :
                    arg.instResults[j].key = arg.catDef.summary.sources.e[i]].res

FieldOr0(r, f) == IF f \in DOMAIN r THEN r[f] ELSE 0

\* The table a summary resolves its band in: the rule's percent-band table
\* when it has one, else its band table.
TableOfRule == 
  IF arg.catDef.summary.percentBands # Absent THEN arg.catDef.summary.percentBands.e
  ELSE arg.catDef.summary.bands.e

FirstBandOf(table, p, band) ==
  LET in == {i \in 1..Len(table) : HoldsPercent(table[i], p)}
  IN  IF in = {} THEN band = NoBand
      ELSE band.label = table[Earliest(in)].label /\ band.level = table[Earliest(in)].level

IsScenarioE ==
  /\ arg.catDef.summary.sources = Arr(<<"a", "b">>)
  /\ Len(arg.instResults) >= 2
  /\ arg.instResults[1].res = Scored("weighted_select", 6, 12)
  /\ arg.instResults[2].res = Scored("weighted_select", 3, 9)

(* C12: a category summary in percent mode has percent equal to              *)
(* 100 x (sum of totals) / (sum of maxes) over the named sources, and 0 when *)
(* the sum of maxes is 0, and its band is resolved from that percent; two    *)
(* sources with (total, max) of (6, 12) and (3, 9) give 9/21 x 100, which is *)
(* 42.86 to two decimals.                                                    *)
C12_PercentModeSummary ==
  callee = "summarizeCategory" /\ arg.catDef.summary.present
    /\ arg.catDef.summary.mode = "percent" =>
    LET t == SumOver(Found, [i \in Found |-> FieldOr0(ResultOfSource(i), "total")])
        m == SumOver(Found, [i \in Found |-> FieldOr0(ResultOfSource(i), "max")])
    IN  /\ ~ret.percent.null
        /\ ret.percent.den > 0
        /\ m > 0 => ret.percent.num * m = 100 * t * ret.percent.den
        /\ m <= 0 => ret.percent.num = 0
        /\ ret.value.null
        /\ FirstBandOf(TableOfRule, ret.percent, ret.band)
        /\ IsScenarioE =>
             /\ ret.percent.num * 21 = 900 * ret.percent.den
             /\ MathRound(ret.percent.num * 100, ret.percent.den) = 4286

C12_Witness ==
  /\ callee = "summarizeCategory"
  /\ arg.catDef.summary.mode = "percent"
  /\ IsScenarioE
  /\ Len(arg.instResults) = 2
  /\ arg.catDef.summary.percentBands = PercentBands
  /\ ret.percent = SomeNumber(Rat(300, 7))
  /\ ret.band.label = "lowP"

-----------------------------------------------------------------------------
(* The overall result and the absent rules                                 *)

ReturnedTree ==
  /\ callee = "compute"
  /\ ret.threw = FALSE
  /\ arg.k = "object"

\* Every instrument result of the returned tree, as <<section, place>> pairs.
AllResults ==
  {<<c, i>> \in (1..Len(ret.val.sections)) \X (1..(2 * MaxInsts + 1)) :
     i <= Len(ret.val.sections[c].instruments)}

ResultAt(ci) == ret.val.sections[ci[1]].instruments[ci[2]].res

C14_NoRuleNoSummary ==
  ReturnedTree =>
    /\ \A c \in 1..Len(ret.val.sections) :
         ~arg.config.categories.e[c].summary.present =>
           ret.val.sections[c].summary = [null |-> TRUE]
    /\ arg.config.overall.mode = "" => ret.val.overall = [empty |-> TRUE]

\* Scored instruments in two categories, no summary rule, no composite mode.
C14_Witness ==
  /\ ReturnedTree
  /\ arg.config.overall.mode = ""
  /\ Len(ret.val.sections) = 2
  /\ ~arg.config.categories.e[1].summary.present
  /\ Len(ret.val.sections[1].instruments) = 2
  /\ ret.val.sections[1].instruments[2].res.total = 4
  /\ Len(ret.val.sections[2].instruments) = 1
  /\ ret.val.sections[2].instruments[1].res.total = 1
  /\ ret.val.sections[1].summary = [null |-> TRUE]
  /\ ret.val.overall = [empty |-> TRUE]

-----------------------------------------------------------------------------
(* part_000: the social section and the combination of the sections        *)

\* An answers object of one scale: the answered items under their keys.
ScaleObject(keys, answers) ==
  [k \in {keys[i] : i \in 1..Len(answers)} |->
     answers[CHOOSE i \in 1..Len(answers) : keys[i] = k]]

\* Lines 203-207: the sum of the values of answers.ucla that are numbers.
RECURSIVE uclaLoop(_, _)
uclaLoop(ucla, keys) ==
  IF keys = {} THEN 0
  ELSE LET k == CHOOSE x \in keys : TRUE
           n == Number(ucla[k])
       IN  (IF n.t # "NaN" THEN n.n ELSE 0) + uclaLoop(ucla, keys \ {k})

\* The tier of a section's percent: lines 218-221.
sectionTier(p) ==
  IF p >= 75 THEN "Very High"
  ELSE IF p >= 50 THEN "High"
  ELSE IF p >= 25 THEN "Moderate" ELSE "Low"

\* computeSocial(answers), with form.bands as a second argument.
computeSocial(answers, bands) ==
  LET lsnsSum == sumLikert(answers.lsns, {}).sum
      uclaSum == uclaLoop(answers.ucla, DOMAIN answers.ucla)
      lsnsThreat == 30 - lsnsSum
      uclaThreat == uclaSum - 3
      score == lsnsThreat + uclaThreat
      p == pct(score, 36)
  IN  [id |-> "social", score |-> score, max |-> 36, pct |-> p, tier |-> sectionTier(p),
       details |-> [lsns |-> [sum |-> lsnsSum,
                              tier |-> pickBand(RatOf(lsnsSum), OrEmpty(bands.lsnsBands))],
                    ucla |-> [sum |-> uclaSum,
                              tier |-> pickBand(RatOf(uclaSum), OrEmpty(bands.uclaBands))]]]

Tier(minPct, maxPct, label) == [minPct |-> minPct, maxPct |-> maxPct, label |-> label]

\* The tiers combineSections falls back on: lines 341-346.
DefaultTiers ==
  Arr(<<Tier(0, 24, "Low"), Tier(25, 49, "Moderate"),
        Tier(50, 74, "High"), Tier(75, 100, "Very High")>>)

\* Lines 349-354: the sections with a numeric score and a positive max.
RECURSIVE sectionTotals(_, _)
sectionTotals(sections, i) ==
  IF i > Len(sections) THEN [score |-> 0, max |-> 0]
  ELSE LET rest == sectionTotals(sections, i + 1)
       IN  IF sections[i].max > 0
           THEN [score |-> rest.score + sections[i].score, max |-> rest.max + sections[i].max]
           ELSE rest

\* Lines 356-359: the label starts as "Low" and the first tier holding the
\* percent replaces it.
RECURSIVE tierScan(_, _, _)
tierScan(totalPct, tiers, i) ==
  IF i > Len(tiers) THEN "Low"
  ELSE IF totalPct >= tiers[i].minPct /\ totalPct <= tiers[i].maxPct THEN tiers[i].label
       ELSE tierScan(totalPct, tiers, i + 1)

\* combineSections(sections), with BT_CFG.overallRiskTiers as a second
\* argument (Absent when the config has none).
combineSections(sections, overallRiskTiers) ==
  LET tiers == IF overallRiskTiers.k = "undefined" THEN DefaultTiers ELSE overallRiskTiers
      sums == sectionTotals(sections, 1)
      totalPct == pct(sums.score, sums.max)
  IN  [totalPct |-> totalPct, tier |-> tierScan(totalPct, tiers.e, 1),
       score |-> sums.score, max |-> sums.max]

LsnsItems == 6

UclaItems == 3

LsnsKeys == <<"lsns1", "lsns2", "lsns3", "lsns4", "lsns5", "lsns6">>

UclaKeys == <<"ucla1", "ucla2", "ucla3">>

\* The LSNS items answered so far, all with the same option (0..5).
LsnsAnswers == {[i \in 1..n |-> JNum(v)] : n \in 0..LsnsItems, v \in {0, 3, 5}}

\* The UCLA items answered so far (options 1..3).
UclaAnswers == SeqsUpTo({JNum(1), JNum(3)}, UclaItems)

LsnsBands ==
  Arr(<<Band(JNum(0), JNum(11), "isolated", ""), Band(JNum(12), JNum(30), "connected", "")>>)

UclaBands ==
  Arr(<<Band(JNum(3), JNum(5), "not lonely", ""), Band(JNum(6), JNum(9), "lonely", "")>>)

\* A section result as combineSections reads it.
Section(id, score, max) ==
  [id |-> id, score |-> score, max |-> max, pct |-> pct(score, max),
   tier |-> sectionTier(pct(score, max))]

\* The results computeAll has of the other sections when it comes to combine.
OtherSections == {<<>>, <<Section("sensory", 8, 40)>>, <<Section("sensory", 40, 40)>>}

SectionInputs ==
  {[social |-> [lsns |-> ScaleObject(LsnsKeys, l), ucla |-> ScaleObject(UclaKeys, u)],
    bands |-> b, others |-> o, tiers |-> t] :
     l \in LsnsAnswers, u \in UclaAnswers,
     b \in {[lsnsBands |-> Absent, uclaBands |-> Absent],
            [lsnsBands |-> LsnsBands, uclaBands |-> UclaBands]},
     o \in OtherSections, t \in {Absent, DefaultTiers, Arr(<<>>)}}

InitSections ==
  /\ Idle
  /\ arg \in SectionInputs

\* computeAll, first half: the section is scored.
Call_computeSocial ==
  /\ callee = "none"
  /\ callee' = "computeSocial"
  /\ ret' = computeSocial(arg.social, arg.bands)
  /\ UNCHANGED arg

\* computeAll, second half: the section results are combined.
Call_combineSections ==
  /\ callee = "computeSocial"
  /\ callee' = "combineSections"
  /\ ret' = [sections |-> <<ret>> \o arg.others,
             overall |-> combineSections(<<ret>> \o arg.others, arg.tiers)]
  /\ UNCHANGED arg

NextSections == Call_computeSocial \/ Call_combineSections

SpecSections == InitSections /\ [][NextSections]_vars

-----------------------------------------------------------------------------
(* Totals and section scores                                               *)

AllLsnsAt(v) ==
  /\ DOMAIN arg.social.lsns = {LsnsKeys[i] : i \in 1..LsnsItems}
  /\ \A k \in DOMAIN arg.social.lsns : arg.social.lsns[k] = JNum(v)

\* C15: every numeric total is non-negative; here the score of the social
\* section, each section score handed to combineSections and the combined
\* score.
C15_TotalsNonNegative ==
  /\ callee = "computeSocial" => ret.score >= 0
  /\ callee = "combineSections" =>
       /\ \A i \in 1..Len(ret.sections) : ret.sections[i].score >= 0
       /\ ret.overall.score >= 0

\* All six LSNS items answered 5 and no UCLA item answered: the section
\* score is 30 - 30 + 0 - 3.
C15_NegativeSectionScore ==
  /\ callee = "combineSections"
  /\ AllLsnsAt(5)
  /\ DOMAIN arg.social.ucla = {}
  /\ arg.others = <<>>
  /\ ret.sections[1].score = 0 - 3
  /\ ret.overall.score = 0 - 3

-----------------------------------------------------------------------------
(* The overall-tier lookup                                                 *)

\* The tier table combineSections looks the percent up in.
TiersInUse == IF arg.tiers.k = "undefined" THEN DefaultTiers.e ELSE arg.tiers.e

HoldingTiers(p) ==
  {i \in 1..Len(TiersInUse) : p >= TiersInUse[i].minPct /\ p <= TiersInUse[i].maxPct}

\* C19: a lookup answers with a tier whose range holds the value, and with
\* an empty or neutral label when no declared range holds it or the table
\* is empty; here the band lookups of the social section and the
\* overall-tier lookup of combineSections.
C19_LookupWithinRange ==
  /\ callee = "computeSocial" /\ arg.bands.lsnsBands.k = "undefined" =>
       ret.details.lsns.tier = NoTier /\ ret.details.ucla.tier = NoTier
  /\ callee = "combineSections" =>
       IF HoldingTiers(ret.overall.totalPct) = {}
       THEN ret.overall.tier \in {"", NoTier}
       ELSE \E i \in HoldingTiers(ret.overall.totalPct) : ret.overall.tier = TiersInUse[i].label

\* The percent is -8, below every tier of the configured table, and the
\* lookup answers "Low" (0..24).
C19_LowOutsideEveryTier ==
  /\ callee = "combineSections"
  /\ arg.tiers = DefaultTiers
  /\ ret.overall.totalPct = 0 - 8
  /\ HoldingTiers(ret.overall.totalPct) = {}
  /\ ret.overall.tier = "Low"

\* What the lookup does: the first holding tier, and "Low" without one.
FirstTierElseLow ==
  callee = "combineSections" =>
    ret.overall.tier =
      IF HoldingTiers(ret.overall.totalPct) = {} THEN "Low"
      ELSE TiersInUse[CHOOSE i \in HoldingTiers(ret.overall.totalPct) :
                        \A j \in HoldingTiers(ret.overall.totalPct) : i <= j].label

-----------------------------------------------------------------------------
(* The range of the percentages                                            *)

\* C16: every percentage lies in [0, 100]; here the percent of a
\* percent-mode category summary.
C16_PercentWithinRange ==
  callee = "summarizeCategory" /\ arg.catDef.summary.present /\ ~ret.percent.null =>
    /\ ret.percent.den > 0
    /\ ret.percent.num >= 0
    /\ ret.percent.num <= 100 * ret.percent.den

\* The one source is a radio result with total 6 and max 3 (two items with
\* maxValue 3, both answered 3): the summary percent is 200.
C16_PercentAbove100 ==
  /\ callee = "summarizeCategory"
  /\ arg.catDef.summary.present
  /\ arg.catDef.summary.mode = "percent"
  /\ arg.catDef.summary.sources = Arr(<<"a">>)
  /\ Len(arg.instResults) >= 1
  /\ arg.instResults[1].res = Scored("radio", 6, 3)
  /\ ~ret.percent.null
  /\ ret.percent.num = 200 * ret.percent.den

-----------------------------------------------------------------------------
(* Instruments without answers, and answers that are no numbers            *)

\* No item of the instrument has a response.
NothingAnswered ==
  \A i \in 1..Len(ItemsOf(arg.inst)) :
    Resp(arg.responses, ItemsOf(arg.inst)[i].key).t = "undefined"

ScaleMaxOf(inst) ==
  IF inst.likert.scaleMax = JUndef THEN 4 ELSE inst.likert.scaleMax.n

\* C17: an instrument with no items, or with no item answered, has total 0,
\* the max of its formula and the empty band, also when a band of its
\* table holds 0; here the Likert evaluator.
C17_NothingAnsweredEmptyBand ==
  callee = "computeLikert" /\ NothingAnswered =>
    /\ ret.total = 0
    /\ ret.answered = 0
    /\ ret.max = Len(ItemsOf(arg.inst)) * ScaleMaxOf(arg.inst)
    /\ ret.band = NoBand

\* Two items, neither answered, and a table whose first band is 0..2: the
\* result carries that band.
C17_ZeroTotalBanded ==
  /\ callee = "computeLikert"
  /\ Len(ItemsOf(arg.inst)) = 2
  /\ NothingAnswered
  /\ ret.total = 0
  /\ ret.answered = 0
  /\ ret.band.label = "low"

\* What the evaluator does without answers: total 0, looked up like any total.
NothingAnsweredBandOfZero ==
  callee = "computeLikert" /\ NothingAnswered =>
    /\ ret.total = 0
    /\ ret.answered = 0
    /\ ret.max = Len(ItemsOf(arg.inst)) * ScaleMaxOf(arg.inst)
    /\ ret.band = bandFromCuts(SomeNumber(RatOf(0)), arg.inst.likert.bands)

\* A response that is a number: present, not null, not the empty string and
\* not a text that is no number.
IsValidResponse(v) == IsNumeric(v) /\ v # JStr("")

\* C18: a response that is absent, null, the empty string or a text that is
\* no number is unanswered: it adds 0 to the total and is not counted in
\* answered; here the Likert evaluator.
C18_InvalidIsUnanswered ==
  callee = "computeLikert" =>
    LET items == ItemsOf(arg.inst)
        S == ScaleMaxOf(arg.inst)
        answered == {i \in 1..Len(items) :
                       IsValidResponse(Resp(arg.responses, items[i].key))}
        contrib == [i \in answered |->
                      LET raw == NumericOf(Resp(arg.responses, items[i].key))
                      IN  Clamped(IF items[i].reverse THEN S - raw ELSE raw, 0, S)]
    IN  /\ ret.total = SumOver(answered, contrib)
        /\ ret.answered = Cardinality(answered)

\* One reverse-scored item whose response is the empty string, on the
\* default scale: it is counted as answered and adds 4.
C18_EmptyStringScored ==
  /\ callee = "computeLikert"
  /\ Len(ItemsOf(arg.inst)) = 1
  /\ ItemsOf(arg.inst)[1].reverse
  /\ arg.inst.likert.scaleMax = JUndef
  /\ Resp(arg.responses, ItemsOf(arg.inst)[1].key) = JStr("")
  /\ ret.answered = 1
  /\ ret.total = 4

-----------------------------------------------------------------------------
(* The payload after compute                                               *)

-----------------------------------------------------------------------------
(* A sequence of evaluations                                               *)

MaxCalls == 3

SessionSchema(overall) ==
  Config(Arr(<<Category("c1",
                        Arr(<<InstOfKind("likert", "l1"),
                              [WeightedInst(TwoItems, PercentBands) EXCEPT !.key = "w2"]>>),
                        Arr(<<SubGroup("s", Arr(<<InstOfKind("weighted", "s1")>>))>>),
                        Summary("percent", Arr(<<"w2", "s1">>), Absent, PercentBands))>>),
         overall)

\* The payloads of a session: one schema under three response maps, the same
\* schema without a composite rule, and a schema compute throws on.
SessionPayloads ==
  {Payload(SessionSchema(Overall("percent", PercentBands, FALSE)), r) :
     r \in {<<>>, RespOf(<<JNum(1), JStr("3")>>), RespOf(<<JNum(3)>>)}}
  \cup {Payload(SessionSchema(Overall("", Absent, FALSE)), RespOf(<<JNum(1), JStr("3")>>)),
        Payload(Config(Arr(<<Nil>>), Overall("", Absent, TRUE)), <<>>)}

\* arg is the sequence of payloads the page will evaluate, ret the outcomes
\* of those evaluated so far.
InitSession ==
  /\ callee = "none"
  /\ ret = <<>>
  /\ arg \in SeqsUpTo(SessionPayloads, MaxCalls) \ {<<>>}

\* The next evaluation of the session.
Call_computeAfter ==
  /\ Len(ret) < Len(arg)
  /\ callee' = "compute"
  /\ ret' = Append(ret, computeAfter(ret, arg[Len(ret) + 1]))
  /\ UNCHANGED arg

NextSession == Call_computeAfter

SpecSession == InitSession /\ [][NextSession]_vars

-----------------------------------------------------------------------------
(* The result list of a category                                           *)

\* The instruments a category declares, each with the key of the sub-group
\* that owns it (<<>> for a flat instrument): the flat ones, then those of
\* sub-group 1, of sub-group 2, and so on.
RECURSIVE Declared(_, _)
Declared(cat, g) ==
  LET flat == OrEmpty(cat.instruments).e
      subs == OrEmpty(cat.subAccordions).e
  IN  IF g = 0 THEN [i \in 1..Len(flat) |-> [inst |-> flat[i], sub |-> <<>>]]
      ELSE Declared(cat, g - 1)
           \o [i \in 1..Len(OrEmpty(subs[g].instruments).e) |->
                 [inst |-> subs[g].instruments.e[i], sub |-> <<subs[g].key>>]]

DeclaredIn(cat) == Declared(cat, Len(OrEmpty(cat.subAccordions).e))

\* C22: the result list of a category holds one result per instrument of
\* the category, the flat instruments first and then those of each
\* sub-group, all in declaration order; a result carries a sub-group key
\* exactly when its instrument is owned by a sub-group, and the key is the
\* owner's.
C22_OneResultPerInstrument ==
  ReturnedTree /\ arg.config.categories.k = "array" =>
    \A c \in 1..Len(arg.config.categories.e) :
      LET d == DeclaredIn(arg.config.categories.e[c])
          list == ret.val.sections[c].instruments
      IN  /\ Len(list) = Len(d)
          /\ \A i \in 1..Len(d) :
               /\ list[i].key = d[i].inst.key
               /\ list[i].sub = d[i].sub
               /\ list[i].res = computeInstrument(d[i].inst, arg.responses)

\* Two flat instruments, then two of sub-group s, then (past a sub-group
\* without instruments) one of sub-group t.
C22_Witness ==
  /\ ReturnedTree
  /\ Len(arg.config.categories.e) = 2
  /\ Len(arg.config.categories.e[1].subAccordions.e) = 3
  /\ arg.responses # NoResponses
  /\ Len(ret.val.sections[1].instruments) = 5
  /\ [i \in 1..5 |-> ret.val.sections[1].instruments[i].key] = <<"l1", "w2", "s1", "s2", "t1">>
  /\ [i \in 1..5 |-> ret.val.sections[1].instruments[i].sub] = <<<<>>, <<>>, <<"s">>, <<"s">>, <<"t">>>>
  /\ ret.val.sections[1].instruments[4].res.total > 0
  /\ Len(ret.val.sections[2].instruments) = 1

-----------------------------------------------------------------------------
(* The composite of the sections                                           *)

\* The sections combineSections counts: those with a max above 0.
Counted == {i \in 1..Len(ret.sections) : ret.sections[i].max > 0}

GrandScore == SumOver(Counted, [i \in Counted |-> ret.sections[i].score])

GrandMax == SumOver(Counted, [i \in Counted |-> ret.sections[i].max])

\* The composite is one ratio over the counted sections.
GrandRatio ==
  callee = "combineSections" =>
    /\ ret.overall.score = GrandScore
    /\ ret.overall.max = GrandMax
    /\ ret.overall.totalPct =
         IF GrandMax > 0 THEN MathRound(100 * GrandScore, GrandMax) ELSE 0

\* C23: totalPct is round(100 x sum of score / sum of max) over the
\* sections with a numeric score and a max above 0, 0 without such a
\* section, and the overall tier is the tier of the table in use whose
\* range [minPct, maxPct] contains totalPct.
C23_GrandRatioAndTier ==
  /\ GrandRatio
  /\ callee = "combineSections" =>
       \E i \in HoldingTiers(ret.overall.totalPct) : ret.overall.tier = TiersInUse[i].label

\* The social section alone, with score -3 of 36: totalPct is
\* round(-300 / 36) = -8, no tier of the default table holds it, and the
\* overall tier is "Low".
C23_TierWithoutHoldingRange ==
  /\ callee = "combineSections"
  /\ arg.tiers = Absent
  /\ Len(ret.sections) = 1
  /\ ret.overall.score = 0 - 3
  /\ ret.overall.max = 36
  /\ ret.overall.totalPct = 0 - 8
  /\ HoldingTiers(ret.overall.totalPct) = {}
  /\ ret.overall.tier = "Low"

-----------------------------------------------------------------------------
(* Rescaling the weights of a weighted select                              *)

\* The instrument with every item weight multiplied by c.
Rescaled(inst, c) ==
  [inst EXCEPT !.items.e = [i \in 1..Len(@) |-> [@[i] EXCEPT !.weight = JNum(@.n * c)]]]

RescaleFactors == {2, 3}

RescaleInputs ==
  {[inst |-> WeightedInst(sh, PercentBands), responses |-> RespOf(Answers(sh)), factor |-> c] :
     sh \in SeqsUpTo(WeightedShapes, MaxItems), c \in RescaleFactors}

InitRescale ==
  /\ Idle
  /\ arg \in RescaleInputs

\* The engine evaluates the instrument as declared and with rescaled weights.
Call_computeWeightedSelect_rescaled ==
  /\ callee = "none"
  /\ callee' = "computeWeightedSelect"
  /\ ret' = [declared |-> computeWeightedSelect(arg.inst, arg.responses),
             rescaled |-> computeWeightedSelect(Rescaled(arg.inst, arg.factor), arg.responses)]
  /\ UNCHANGED arg

\* The renderer scores the rendered form as declared and with rescaled weights.
Call_R_weighted_select_rescaled ==
  /\ callee = "none"
  /\ Selectable(arg.responses)
  /\ callee' = "R_weighted_select"
  /\ ret' = [declared |-> R_weighted_select_compute(arg.inst, arg.responses),
             rescaled |-> R_weighted_select_compute(Rescaled(arg.inst, arg.factor),
                                                    arg.responses)]
  /\ UNCHANGED arg

NextRescale == Call_computeWeightedSelect_rescaled \/ Call_R_weighted_select_rescaled

SpecRescale == InitRescale /\ [][NextRescale]_vars

\* C24: the percent of a weighted select is the same when every item weight
\* is multiplied by one positive constant, whatever was selected; this
\* holds for the engine's percent and for the renderer's.
C24_PercentScaleInvariant ==
  /\ callee = "computeWeightedSelect" =>
       /\ ret.rescaled.percent = ret.declared.percent
       /\ ret.rescaled.band = ret.declared.band
  /\ callee = "R_weighted_select" => ret.rescaled.pct = ret.declared.pct

\* Two items of weights 1 and 2 on the 0..3 scale, selections 3 and 0: the
\* engine's percent is 50 with the weights as declared and tripled.
C24_Witness ==
  /\ callee = "computeWeightedSelect"
  /\ arg.factor = 3
  /\ Len(arg.inst.items.e) = 2
  /\ arg.inst.items.e[1].weight = JNum(1)
  /\ arg.inst.items.e[2].weight = JNum(2)
  /\ arg.responses = RespOf(<<JStr("3"), JStr("0")>>)
  /\ ret.declared.max = 6
  /\ ret.declared.percent = RatOf(50)
  /\ ret.rescaled.percent = RatOf(50)

-----------------------------------------------------------------------------
(* part_000: the sensory section                                           *)

\* An answers object that is missing (answers?.vfq7 of a section without it).
NoAnswers == [missing |-> TRUE]

\* floor(log2(n)), n >= 1.
RECURSIVE Log2Floor(_)
Log2Floor(n) == IF n < 2 THEN 0 ELSE 1 + Log2Floor(n \div 2)

RECURSIVE Pow2(_)
Pow2(k) == IF k = 0 THEN 1 ELSE 2 * Pow2(k - 1)

\* Math.log(n) in ten-thousandths, for an integer n in 1..999: with
\* n = 2^k * m, ln(n) = k ln(2) + 2 atanh((m - 1) / (m + 1)), the series cut
\* after five terms.  Within 0.0011 of the logarithm.
MathLogE4(n) ==
  LET k == Log2Floor(n)
      y == ((n - Pow2(k)) * 10000) \div (n + Pow2(k))
      y2 == (y * y) \div 10000
      t3 == (y * y2) \div 10000
      t5 == (t3 * y2) \div 10000
      t7 == (t5 * y2) \div 10000
      t9 == (t7 * y2) \div 10000
  IN  k * 6931 + 2 * (y + t3 \div 3 + t5 \div 5 + t7 \div 7 + t9 \div 9)

\* Lines 287-290 on p in thousandths: the score in hundredths of a point,
\* 72.63 - 31.44 p - 9.423 ln(p / (1 - p)) clamped to 0..100 (within 0.03 of
\* the floating-point value).
vfqScore(pMilli) ==
  LET p == clamp(pMilli, 1, 999)
      logit == MathLogE4(p) - MathLogE4(1000 - p)
  IN  clamp(7263 - (3144 * p) \div 1000 - (9423 * logit) \div 100000, 0, 10000)

\* Mutant: an item without an answer counts as 0.
need_missingIsZero(v, name) ==
  IF Number(Resp(v, name)).t = "NaN" THEN JNum(0) ELSE Number(Resp(v, name))

\* need(name): line 263.
need(v, name) == IF Number(Resp(v, name)).t = "NaN" THEN JNull ELSE Number(Resp(v, name))

Incomplete(used) == [score |-> JNull, used |-> used, complete |-> FALSE]

\* The last item of a route: lines 269-270, 272-273, 279-280, 282-283.
\* coef is the item's coefficient in thousandths.
thirdItem(v, p, used, name, id, coef) ==
  IF need(v, name) = JNull THEN Incomplete(used)
  ELSE [score |-> JNum(vfqScore(p - coef * need(v, name).n)),
        used |-> Append(used, id), complete |-> TRUE]

\* scoreVFQ3of7(v); p is kept in thousandths and the score in hundredths.
scoreVFQ3of7(v) ==
  IF "missing" \in DOMAIN v THEN Incomplete(<<>>)
  ELSE IF Number(Resp(v, "v1")).t = "NaN" THEN Incomplete(<<>>)
  ELSE LET A11b == Number(Resp(v, "v1")).n
           p == 1145 - 85 * A11b
       IN  IF A11b = 1
           THEN IF need(v, "v2") = JNull THEN Incomplete(<<"1">>)
                ELSE LET A3 == need(v, "v2").n
                     IN  IF A3 < 3
                         THEN thirdItem(v, p - 43 * A3, <<"1", "2">>, "v4", "4", 29)
                         ELSE thirdItem(v, p - 43 * A3, <<"1", "2">>, "v5", "5", 54)
           ELSE IF need(v, "v3") = JNull THEN Incomplete(<<"1">>)
                ELSE LET q11 == need(v, "v3").n
                     IN  IF q11 = 1
                         THEN thirdItem(v, p - 104 * q11, <<"1", "3">>, "v6", "6", 58)
                         ELSE thirdItem(v, p - 104 * q11, <<"1", "3">>, "v7", "7", 31)

\* scoreHHIES(h): the sum of the values of h that are numbers.
RECURSIVE hhiesLoop(_, _)
hhiesLoop(h, keys) ==
  IF keys = {} THEN [sum |-> 0, answered |-> 0]
  ELSE LET k == CHOOSE x \in keys : TRUE
           rest == hhiesLoop(h, keys \ {k})
           n == Number(h[k])
       IN  IF n.t # "NaN" THEN [sum |-> rest.sum + n.n, answered |-> rest.answered + 1]
           ELSE rest

scoreHHIES(h) ==
  IF "missing" \in DOMAIN h THEN [sum |-> 0, answered |-> 0] ELSE hhiesLoop(h, DOMAIN h)

\* computeSensory(answers), with form.bands as a second argument.  The
\* vision component 100 - vfq is kept to the nearest point.
computeSensory(answers, bands) ==
  LET hhSum == scoreHHIES(answers.hhies).sum
      vres == scoreVFQ3of7(answers.vfq7)
      vfq == IF vres.complete THEN vres.score ELSE JNull
      compScore == hhSum + (IF vfq = JNull THEN 0
                            ELSE 100 - MathRound(vfq.n, 100))
      compMax == 40 + (IF vfq = JNull THEN 0 ELSE 100)
      p == pct(compScore, compMax)
  IN  [id |-> "sensory", score |-> compScore, max |-> compMax, pct |-> p,
       tier |-> sectionTier(p),
       details |-> [hearing |-> [sum |-> hhSum,
                                 tier |-> pickBand(RatOf(hhSum), OrEmpty(bands.hhiesBands)),
                                 max |-> 40],
                    vision |-> [score |-> vfq, used |-> vres.used,
                                complete |-> vres.complete]]]

VfqKeys == {"v1", "v2", "v3", "v4", "v5", "v6", "v7"}

\* The VFQ answers held so far: any of the seven items, each with an option
\* value (1..6) below or above the cuts of the routing.
VfqObjects == UNION {[K -> {JNum(1), JNum(2), JNum(4)}] : K \in SUBSET VfqKeys}

HhiesKeys == <<"h1", "h2", "h3", "h4", "h5", "h6", "h7", "h8", "h9", "h10">>

\* The HHIE-S answers held so far (0, 2 or 4 per item).
HhiesObjects ==
  {ScaleObject(HhiesKeys, a) : a \in {<<>>, <<JNum(2), JNum(0)>>, [i \in 1..10 |-> JNum(4)]}}

HhiesBands ==
  Arr(<<Band(JNum(0), JNum(8), "no handicap", ""), Band(JNum(10), JNum(40), "handicap", "")>>)

SensoryInputs ==
  {[hhies |-> h, vfq7 |-> v, bands |-> [hhiesBands |-> b]] :
     h \in HhiesObjects, v \in VfqObjects, b \in {HhiesBands}}
  \cup {[hhies |-> NoAnswers, vfq7 |-> NoAnswers, bands |-> [hhiesBands |-> Absent]]}

InitSensory ==
  /\ Idle
  /\ arg \in SensoryInputs

Call_scoreVFQ3of7 ==
  /\ callee = "none"
  /\ callee' = "scoreVFQ3of7"
  /\ ret' = scoreVFQ3of7(arg.vfq7)
  /\ UNCHANGED arg

Call_computeSensory ==
  /\ callee = "none"
  /\ callee' = "computeSensory"
  /\ ret' = computeSensory(arg, arg.bands)
  /\ UNCHANGED arg

NextSensory == Call_scoreVFQ3of7 \/ Call_computeSensory

SpecSensory == InitSensory /\ [][NextSensory]_vars

-----------------------------------------------------------------------------
(* The route through the VFQ items                                         *)

Answered(v, name) == Resp(v, name).t = "number"

\* The items on the route of the answers v, in order: v1; on v1 = 1, v2 and
\* then v4 (v2 < 3) or v5; otherwise v3 and then v6 (v3 = 1) or v7.  The
\* route ends at the first item without a numeric answer.
RouteOf(v) ==
  IF ~Answered(v, "v1") THEN <<"1">>
  ELSE IF v["v1"].n = 1
       THEN IF ~Answered(v, "v2") THEN <<"1", "2">>
            ELSE IF v["v2"].n < 3 THEN <<"1", "2", "4">> ELSE <<"1", "2", "5">>
       ELSE IF ~Answered(v, "v3") THEN <<"1", "3">>
            ELSE IF v["v3"].n = 1 THEN <<"1", "3", "6">> ELSE <<"1", "3", "7">>

ItemKey(id) ==
  CASE id = "1" -> "v1" [] id = "2" -> "v2" [] id = "3" -> "v3" [] id = "4" -> "v4"
    [] id = "5" -> "v5" [] id = "6" -> "v6" [] OTHER -> "v7"

OnRoute(v) == {ItemKey(RouteOf(v)[i]) : i \in 1..Len(RouteOf(v))}

\* The answers v with the answer of item k replaced by x, or taken away.
WithAnswer(v, k, x) == [j \in DOMAIN v \cup {k} |-> IF j = k THEN x ELSE v[j]]

WithoutAnswer(v, k) == [j \in DOMAIN v \ {k} |-> v[j]]

\* C25: the VFQ score uses three of the seven items, v1, then v2 and v4 or
\* v5 when v1 = 1 and otherwise v3 and v6 or v7; the result is complete
\* exactly when the three routed items are numeric, the used list then has
\* three entries, the score lies in [0, 100], and no answer of an item off
\* the route changes the result.
C25_ThreeOfSevenRoute ==
  callee = "scoreVFQ3of7" /\ "missing" \notin DOMAIN arg.vfq7 =>
    LET v == arg.vfq7
        route == RouteOf(v)
    IN  /\ ret.complete <=>
             Len(route) = 3 /\ \A i \in 1..3 : Answered(v, ItemKey(route[i]))
        /\ ret.complete =>
             /\ ret.used = route
             /\ Len(ret.used) = 3
             /\ ret.score.n >= 0
             /\ ret.score.n <= 10000
        /\ ~ret.complete => ret.score = JNull
        /\ \A k \in VfqKeys \ OnRoute(v) :
             /\ scoreVFQ3of7(WithoutAnswer(v, k)) = ret
             /\ \A x \in 1..6 : scoreVFQ3of7(WithAnswer(v, k, JNum(x))) = ret

\* All seven items are answered, v1 = 1 and v2 = 4: the route is v1, v2, v5
\* and the score is strictly inside the range.
C25_Witness ==
  /\ callee = "scoreVFQ3of7"
  /\ DOMAIN arg.vfq7 = VfqKeys
  /\ arg.vfq7["v1"] = JNum(1)
  /\ arg.vfq7["v2"] = JNum(4)
  /\ arg.vfq7["v5"] = JNum(2)
  /\ arg.vfq7["v4"] = JNum(4)
  /\ ret.complete
  /\ ret.used = <<"1", "2", "5">>
  /\ ret.score.n > 3600
  /\ ret.score.n < 3640

-----------------------------------------------------------------------------
(* part_000: the personal section                                          *)

\* tierWeight(label) with the labels of TIER_WEIGHT that weigh more than 1
\* (their dashes written "-"); every other label, the dash of pickBand and a
\* missing label weigh 1.
tierWeight(label) ==
  CASE label \in {"Very High", "very high", "Significant/High Risk (26-40) - Refer"} -> 4
    [] label \in {"High", "high"} -> 3
    [] label \in {"Moderate", "moderate", "Mild-Moderate Risk (10-24)"} -> 2
    [] OTHER -> 1

\* computeBMI(units, height, weight): lines 60-74.  A height in metres is
\* held in hundredths; the US branch converts with 703.07 lb/in^2 for
\* 0.45359237 / 0.0254^2.
computeBMIOf(units, height, weight) ==
  IF units = JStr("US")
  THEN LET ft == parseFloat(height.ft)
           inches == parseFloat(height.in)
           lb == parseFloat(weight.lb)
       IN  IF ft.t = "number" /\ ft.n > 0 /\ inches.t = "number" /\ inches.n >= 0
              /\ lb.t = "number" /\ lb.n > 0
           THEN Rat(lb.n * 70307, (ft.n * 12 + inches.n) * (ft.n * 12 + inches.n) * 100)
           ELSE NoRat
  ELSE computeBMI(height.m, weight.kg)

\* Array.prototype.find on an array of nodes with an id.
HasId(e, id) == \E i \in 1..Len(e) : e[i].id = id

FindId(e, id) == e[CHOOSE i \in 1..Len(e) : e[i].id = id /\ \A j \in 1..(i - 1) : e[j].id # id]

\* form.sections.find(personal)?.subsections.find(subId)?.items || []
\* (lines 106 and 133).
itemDefs(form, subId) ==
  IF ~HasId(form.sections.e, "personal") THEN <<>>
  ELSE LET subs == FindId(form.sections.e, "personal").subsections.e
       IN  IF ~HasId(subs, subId) THEN <<>> ELSE OrEmpty(FindId(subs, subId).items).e

\* The same expression throws a TypeError when form.sections is no array,
\* or the personal section is found and has no subsections array.
itemDefsThrows(form) ==
  \/ form.sections.k # "array"
  \/ /\ HasId(form.sections.e, "personal")
     /\ FindId(form.sections.e, "personal").subsections.k # "array"

\* Lines 110-116 (answer "Yes", field yesTier) and 137-143 ("No", noTier).
RECURSIVE risksLoop(_, _, _, _)
risksLoop(defs, group, answer, i) ==
  IF i > Len(defs) THEN [risks |-> <<>>, score |-> 0]
  ELSE LET rest == risksLoop(defs, group, answer, i + 1)
           tier == IF answer = "Yes" THEN defs[i].yesTier ELSE defs[i].noTier
       IN  IF Resp(group, defs[i].id) = JStr(answer)
           THEN [risks |-> <<[id |-> defs[i].id, tier |-> tier]>> \o rest.risks,
                 score |-> tierWeight(tier) + rest.score]
           ELSE rest

computePersonal(answers, form) ==
  LET bands == form.bands
      age == Number(answers.age)
      ageTier == IF age.t = "NaN" THEN NoTier
                 ELSE pickBand(RatOf(age.n), OrEmpty(bands.ageBands))
      bmiVal == computeBMIOf(answers.units, answers.height, answers.weight)
      bmiTier == IF bmiVal = NoRat THEN NoTier ELSE pickBand(bmiVal, OrEmpty(bands.bmiBands))
      historyDefs == itemDefs(form, "history_yesno")
      history == risksLoop(historyDefs, answers.history, "Yes", 1)
      sleepSum == sumLikert(answers.sleep, {}).sum
      stressSum == sumLikert(answers.stress, {"stress2", "stress3"}).sum
      activityDefs == itemDefs(form, "activity_yesno")
      activity == risksLoop(activityDefs, answers.activity, "No", 1)
      ageW == tierWeight(ageTier)
      bmiW == tierWeight(bmiTier)
      totScore == ageW + bmiW + history.score + activity.score + sleepSum + stressSum
      totMax == 4 + 4 + Len(historyDefs) * 4 + Len(activityDefs) * 4 + 24 + 16
      totPct == pct(totScore, totMax)
  IN  [id |-> "personal", score |-> totScore, max |-> totMax, pct |-> totPct,
       tier |-> sectionTier(totPct),
       details |->
         [age |-> [value |-> IF age.t = "NaN" THEN JNull ELSE age, tier |-> ageTier,
                   weight |-> ageW],
          bmi |-> [value |-> IF bmiVal = NoRat THEN NoBmi
                             ELSE Bmi(MathRound(bmiVal.num * 10, bmiVal.den)),
                   tier |-> bmiTier, weight |-> bmiW],
          history |-> [risks |-> history.risks, score |-> history.score,
                       max |-> Len(historyDefs) * 4],
          activity |-> [risks |-> activity.risks, score |-> activity.score,
                        max |-> Len(activityDefs) * 4],
          sleep |-> [sum |-> sleepSum, max |-> 24,
                     tier |-> pickBand(RatOf(sleepSum), OrEmpty(bands.sleepBands))],
          stress |-> [sum |-> stressSum, max |-> 16,
                      tier |-> pickBand(RatOf(stressSum), OrEmpty(bands.stressBands))]]]

computePersonalThrows(answers, form) == itemDefsThrows(form)

-----------------------------------------------------------------------------
(* app.js: the page (answers, inputs, accordions, clear buttons)           *)

SectionIds == {"personal", "social", "sensory"}

\* STATE.answers as boot finds it and as the resets write it: lines 82-96,
\* 140-154 and 457-465.
InitialAnswers ==
  [personal |-> [sex |-> JNull, age |-> JNull, units |-> JStr("US"),
                 height |-> [ft |-> JNull, in |-> JNull, m |-> JNull],
                 weight |-> [lb |-> JNull, kg |-> JNull],
                 history |-> <<>>, sleep |-> <<>>, stress |-> <<>>, activity |-> <<>>],
   social |-> [lsns |-> <<>>, ucla |-> <<>>],
   sensory |-> [hhies |-> <<>>, vfq7 |-> <<>>]]

SubsectionDef(id, items) == [id |-> id, items |-> items]

SectionDef(id, subsections) == [id |-> id, subsections |-> subsections]

AgeBands ==
  Arr(<<Band(JNum(0), JNum(54), "Low", ""), Band(JNum(55), JNum(60), "Moderate", ""),
        Band(JNum(61), JNum(70), "High", ""), Band(JNum(71), JNum(80), "Very High", "")>>)

FormBands ==
  [ageBands |-> AgeBands, bmiBands |-> Absent, sleepBands |-> Absent, stressBands |-> Absent,
   lsnsBands |-> LsnsBands, uclaBands |-> UclaBands, hhiesBands |-> HhiesBands]

\* The form config (BT_CONFIG): the personal section with or without its
\* subsections, the social and the sensory section.
FormConfig(personalSubsections) ==
  [bands |-> FormBands,
   sections |->
     Arr(<<SectionDef("personal", personalSubsections),
           SectionDef("social", Arr(<<SubsectionDef("lsns6", Arr(<<[id |-> "lsns1"]>>))>>)),
           SectionDef("sensory", Arr(<<SubsectionDef("hhies", Arr(<<[id |-> "h1"]>>))>>))>>)]

PersonalSubsections ==
  Arr(<<SubsectionDef("demographics", Absent),
        SubsectionDef("history_yesno",
                      Arr(<<[id |-> "heart", yesTier |-> "High", noTier |-> ""]>>))>>)

FormConfigs == {FormConfig(PersonalSubsections), FormConfig(Absent)}

\* The accordions renderSection builds: one per subsection (line 353).
AccordionsOf(form, s) ==
  IF ~HasId(form.sections.e, s) THEN {}
  ELSE LET subs == OrEmpty(FindId(form.sections.e, s).subsections).e
       IN  {<<s, subs[i].id>> : i \in 1..Len(subs)}

AllAccordions(form) == UNION {AccordionsOf(form, s) : s \in SectionIds}

\* The try block of computeAll(): lines 410-415.  One block holds the three
\* calls, so a throw leaves results as it is at the throw.
sectionResults(answers, form) ==
  IF computePersonalThrows(answers.personal, form) THEN <<>>
  ELSE <<computePersonal(answers.personal, form),
         computeSocial(answers.social, form.bands),
         computeSensory(answers.sensory, form.bands)>>

\* computeAll(): lines 408-418.
computeAll(answers, form) ==
  [sections |-> sectionResults(answers, form),
   overall |-> combineSections(sectionResults(answers, form), DefaultTiers)]

\* onChange(): lines 430-437.  The summary is built from the sections of
\* computeAll().
onChange(answers, form) == sectionResults(answers, form)

\* The summary box as boot and the global clear leave it.
SummaryEmpty == [summaryEmpty |-> TRUE]

\* el(): an attribute on... with a function value is registered as a
\* listener for k.substring(2) (line 109).
ListenerTypeOf(k) == SubSeq(k, 3, Len(k))

\* renderSection gives the clear button the attribute onClick (line 395).
ClearButtonAttribute == <<"o", "n", "C", "l", "i", "c", "k">>

\* The type of the event a click on a button dispatches.
ClickEvent == <<"c", "l", "i", "c", "k">>

\* arg holds the page: answers is STATE.answers, inputs the values the
\* rendered inputs show, live[s] whether the object the inputs of section s
\* write to is still the one in STATE.answers, open the open accordions;
\* ret holds what the summary box was last rendered from.
InitPage ==
  /\ callee = "none"
  /\ ret = SummaryEmpty
  /\ \E form \in FormConfigs, startCollapsed \in BOOLEAN :
       arg = [form |-> form, answers |-> InitialAnswers, inputs |-> InitialAnswers,
              live |-> [s \in SectionIds |-> TRUE],
              open |-> IF startCollapsed THEN {} ELSE AllAccordions(form)]

\* A handler of section s wrote newSection into the object it is bound to
\* and the input shows the answer.  The object is the one in STATE.answers
\* while the section is live; otherwise nothing reads it again.
Answered_(s, newSection, newInputs) ==
  arg' = [arg EXCEPT !.answers = IF arg.live[s] THEN [@ EXCEPT ![s] = newSection] ELSE @,
                     !.inputs = [@ EXCEPT ![s] = newInputs]]

Rendered(s, sub) == <<s, sub>> \in AllAccordions(arg.form)

\* The age input: line 239.
Input_age ==
  /\ Rendered("personal", "demographics")
  /\ \E n \in {70} :
       Answered_("personal", [arg.answers.personal EXCEPT !.age = JNum(n)],
                 [arg.inputs.personal EXCEPT !.age = JNum(n)])
  /\ callee' = "age"

\* A Yes/No radio of the history group: lines 264-265.
Change_yn ==
  /\ Rendered("personal", "history_yesno")
  /\ \E a \in {"Yes", "No"} :
       Answered_("personal",
                 [arg.answers.personal EXCEPT !.history = WithAnswer(@, "heart", JStr(a))],
                 [arg.inputs.personal EXCEPT !.history = WithAnswer(@, "heart", JStr(a))])
  /\ callee' = "yn"

\* A radio of a radio group (LSNS-6, HHIE-S): line 327.
Change_radio ==
  /\ \/ /\ Rendered("social", "lsns6")
        /\ Answered_("social",
                     [arg.answers.social EXCEPT !.lsns = WithAnswer(@, "lsns1", JNum(5))],
                     [arg.inputs.social EXCEPT !.lsns = WithAnswer(@, "lsns1", JNum(5))])
     \/ /\ Rendered("sensory", "hhies")
        /\ Answered_("sensory",
                     [arg.answers.sensory EXCEPT !.hhies = WithAnswer(@, "h1", JNum(4))],
                     [arg.inputs.sensory EXCEPT !.hhies = WithAnswer(@, "h1", JNum(4))])
  /\ callee' = "radio"

\* An answer event: the handler of the input writes the answer and calls
\* onChange().
Change_answer ==
  /\ Input_age \/ Change_yn \/ Change_radio
  /\ ret' = onChange(arg'.answers, arg'.form)

\* The user opens or closes an accordion (a details element).
Toggle_accordion ==
  /\ \E a \in AllAccordions(arg.form) :
       arg' = [arg EXCEPT !.open = IF a \in @ THEN @ \ {a} ELSE @ \cup {a}]
  /\ callee' = "toggle"
  /\ UNCHANGED ret

\* The listener of Clear This Section: lines 395-399, with resetSectionState,
\* resetSectionUI and recollapseSection.
clearThisSection(page, s) ==
  [page EXCEPT !.answers = [@ EXCEPT ![s] = InitialAnswers[s]],
               !.inputs = [@ EXCEPT ![s] = InitialAnswers[s]],
               !.live = [@ EXCEPT ![s] = FALSE],
               !.open = @ \ AccordionsOf(page.form, s)]

\* The position after a click on the clear button of a section.
ClearButtonOf ==
  [personal |-> "clear personal", social |-> "clear social", sensory |-> "clear sensory"]

\* A click on the Clear This Section button of section s: the listener runs
\* when it is registered for the type of the event.
Click_clearThisSection ==
  /\ \E s \in SectionIds :
       /\ AccordionsOf(arg.form, s) # {}
       /\ IF ListenerTypeOf(ClearButtonAttribute) = ClickEvent
          THEN /\ arg' = clearThisSection(arg, s)
               /\ ret' = onChange(arg'.answers, arg'.form)
          ELSE UNCHANGED <<arg, ret>>
       /\ callee' = ClearButtonOf[s]

\* A click on the global clear button (bt-reset): lines 456-489.
Click_reset ==
  /\ arg' = [arg EXCEPT !.answers = InitialAnswers, !.inputs = InitialAnswers,
                        !.live = [s \in SectionIds |-> FALSE], !.open = {}]
  /\ ret' = SummaryEmpty
  /\ callee' = "reset"

NextPage ==
  \/ Change_answer
  \/ Toggle_accordion
  \/ Click_clearThisSection
  \/ Click_reset

SpecPage == InitPage /\ [][NextPage]_vars

-----------------------------------------------------------------------------
(* Clearing a section and clearing everything                               *)

\* C26: a click on Clear This Section of a section S resets the stored
\* answers of S, leaves the answers of the other sections as they are and
\* leaves every accordion of S closed; a click on the global clear resets
\* the answers of all sections and leaves every accordion closed.
C26_ClearResetsAndCloses ==
  [][/\ \A s \in SectionIds :
          callee' = ClearButtonOf[s]
            => /\ arg'.answers[s] = InitialAnswers[s]
               /\ \A o \in SectionIds \ {s} : arg'.answers[o] = arg.answers[o]
               /\ arg'.open \cap AccordionsOf(arg.form, s) = {}
     /\ callee' = "reset" => arg'.answers = InitialAnswers /\ arg'.open = {}]_vars

\* After a click on Clear This Section of the personal section the stored
\* age is still there and an accordion of the section is still open.
C26_SectionClearLeavesAnswers ==
  /\ callee = ClearButtonOf["personal"]
  /\ arg.answers.personal.age = JNum(70)
  /\ <<"personal", "demographics">> \in arg.open

\* The global clear does what is stated, from every state: the answers are
\* the initial ones and no accordion is open.
GlobalClearResetsAndCloses ==
  callee = "reset" => arg.answers = InitialAnswers /\ arg.open = {}

-----------------------------------------------------------------------------
(* Answers entered after a clear                                            *)

AnswerHandlers == {"age", "yn", "radio"}

\* C27: after any sequence of answer and clear events, every answer entered
\* since the last clear of its section (what the inputs show) is held in the
\* answers computeAll reads, and the summary computed by the answer event
\* is the one of these answers.
C27_EnteredAnswersAreHeld ==
  /\ \A s \in SectionIds : arg.answers[s] = arg.inputs[s]
  /\ callee \in AnswerHandlers => ret = onChange(arg.inputs, arg.form)

\* An age entered after the global clear: the input shows 70, the answers
\* computeAll reads hold no age.
C27_AnswerAfterGlobalClearLost ==
  /\ callee = "age"
  /\ ~arg.live["personal"]
  /\ arg.inputs.personal.age = JNum(70)
  /\ arg.answers.personal.age = JNull

\* Until the first global clear the answers entered are the answers held.
HeldWhileLive ==
  \A s \in SectionIds : arg.live[s] => arg.answers[s] = arg.inputs[s]

-----------------------------------------------------------------------------
(* The sections with no answers                                             *)

ZeroAndLow(r) == r.score = 0 /\ r.pct = 0 /\ r.tier = "Low"

\* C28: with no answers, as at the start and after the global clear,
\* computePersonal, computeSocial and computeSensory each report score 0,
\* percent 0 and tier Low, and combineSections reports percent 0 and tier
\* Low.
C28_NoAnswersAllZeroAndLow ==
  (arg.answers = InitialAnswers /\ ~computePersonalThrows(arg.answers.personal, arg.form))
    => LET all == computeAll(arg.answers, arg.form)
       IN  /\ \A i \in 1..Len(all.sections) : ZeroAndLow(all.sections[i])
           /\ all.overall.totalPct = 0
           /\ all.overall.tier = "Low"

\* After the global clear, with no answers: the social section reports 27
\* of 36, 75 percent, Very High; the personal section reports a score of 2;
\* the composite is not 0.
C28_NoAnswersSocialVeryHigh ==
  /\ callee = "reset"
  /\ arg.answers = InitialAnswers
  /\ ~computePersonalThrows(arg.answers.personal, arg.form)
  /\ LET all == computeAll(arg.answers, arg.form)
     IN  /\ all.sections[1].score = 2
         /\ all.sections[2].score = 27
         /\ all.sections[2].pct = 75
         /\ all.sections[2].tier = "Very High"
         /\ all.overall.totalPct > 0

\* With no answers the sensory section does report 0, 0 and Low.
NoAnswersSensoryZero ==
  arg.answers = InitialAnswers
    => ZeroAndLow(computeSensory(arg.answers.sensory, arg.form.bands))

-----------------------------------------------------------------------------
(* A section that throws                                                    *)

HasResultOf(results, id) == \E i \in 1..Len(results) : results[i].id = id

\* C29: when scoring the personal section throws, computeAll still returns
\* the results of the social and the sensory section.
C29_OtherSectionsSurviveThrow ==
  (callee \in AnswerHandlers /\ computePersonalThrows(arg.answers.personal, arg.form))
    => HasResultOf(ret, "social") /\ HasResultOf(ret, "sensory")

\* A social answer with a form whose personal section has no subsections:
\* computePersonal throws and computeAll returns no section result.
C29_ThrowEmptiesResults ==
  /\ callee = "radio"
  /\ computePersonalThrows(arg.answers.personal, arg.form)
  /\ arg.answers.social.lsns = WithAnswer(<<>>, "lsns1", JNum(5))
  /\ ret = <<>>

\* When no section throws all three results are returned, in order.
AllThreeWithoutThrow ==
  (callee \in AnswerHandlers /\ ~computePersonalThrows(arg.answers.personal, arg.form))
    => Len(ret) = 3 /\ ret[1].id = "personal" /\ ret[2].id = "social" /\ ret[3].id = "sensory"

-----------------------------------------------------------------------------
(* Instruments that share an item key                                       *)

\* The keys of the items of an instrument node.
ItemKeysOf(inst) ==
  IF inst.nil THEN {}
  ELSE IF inst.items.k # "array" THEN {}
  ELSE {inst.items.e[n].key : n \in {m \in 1..Len(inst.items.e) : ~inst.items.e[m].nil}}

ChangedAnswers == {JNum(0), JNum(2)}

\* The result tree of the schema evaluated with the response to k changed
\* to x.
computeChanged(k, x) == compute(Payload(arg.config, WithAnswer(arg.responses, k, x)))

\* The instruments of the result tree other than instrument i of category
\* c whose result differs between the tree and the one evaluated.
Affected(c, i, tree) ==
  UNION {{<<c2, j>> : j \in {n \in 1..Len(tree.sections[c2].instruments) :
                               /\ <<c2, n>> # <<c, i>>
                               /\ tree.sections[c2].instruments[n].res
                                    # ret.val.sections[c2].instruments[n].res}} :
           c2 \in 1..Len(tree.sections)}

\* C30: changing the response to an item of one instrument does not change
\* the result of any other instrument, also when the item keys repeat across
\* the instruments of the schema.
C30_OtherInstrumentsUnaffected ==
  ReturnedTree /\ arg.config.categories.k = "array" =>
    \A c \in 1..Len(arg.config.categories.e) :
      LET d == DeclaredIn(arg.config.categories.e[c])
      IN  \A i \in 1..Len(d) : \A k \in ItemKeysOf(d[i].inst) : \A x \in ChangedAnswers :
            Affected(c, i, computeChanged(k, x)) = {}

\* The Likert instrument l1 and the weighted instrument w2 both hold an item
\* keyed k1: with the response to k1 changed from 1 to 2, as an answer to
\* l1, the result of w2 is another one.
C30_SharedKeyChangesOther ==
  /\ ReturnedTree
  /\ Len(arg.config.categories.e) = 2
  /\ Resp(arg.responses, "k1") = JNum(1)
  /\ LET d == DeclaredIn(arg.config.categories.e[1])
     IN  /\ Len(d) = 2
         /\ d[1].inst.key = "l1" /\ d[2].inst.key = "w2"
         /\ "k1" \in ItemKeysOf(d[1].inst) \cap ItemKeysOf(d[2].inst)
         /\ <<1, 2>> \in Affected(1, 1, computeChanged("k1", JNum(2)))

\* A response under a key that an instrument holds no item of does not
\* change the result of that instrument.
UnsharedKeyUnaffected ==
  ReturnedTree /\ arg.config.categories.k = "array" =>
    \A c \in 1..Len(arg.config.categories.e) :
      LET d == DeclaredIn(arg.config.categories.e[c])
      IN  \A i \in 1..Len(d) : \A k \in {"k1", "k2"} \ ItemKeysOf(d[i].inst) :
            \A x \in ChangedAnswers :
              computeChanged(k, x).sections[c].instruments[i].res
                = ret.val.sections[c].instruments[i].res

=============================================================================
